---- MODULE Spec2Model ----
(***************************************************************************)
(* Model of the umcp JSON-RPC dispatch engine: the synchronous server      *)
(* MCPServer (umcp.py) and the asynchronous server AsyncMCPServer          *)
(* (aioumcp.py).  A server instance reads request lines, dispatches each   *)
(* one through process_request / process_request_async and prints the      *)
(* response envelope, if any.                                              *)
(*                                                                         *)
(* Values are JSON / Python values, tagged by their type in field t:       *)
(*   [t |-> "null"]                 None / null                            *)
(*   [t |-> "str",  s |-> "..."]    a string                               *)
(*   [t |-> "int",  n |-> 1]        an integer                             *)
(*   [t |-> "float", n |-> 2]       the float 2.0 (whole floats only)      *)
(*   [t |-> "bool", b |-> TRUE]     a bool                                 *)
(*   [t |-> "list", items |-> <<>>] a list                                 *)
(*   [t |-> "obj",  f |-> fn]       a dict; DOMAIN fn is its key set       *)
(* Text built by f-strings is a sequence of its pieces.                    *)
(***************************************************************************)
EXTENDS Integers, Sequences, FiniteSets, TLC

VARIABLES
    server,     \* the class of the running instance: "MCPServer" or "AsyncMCPServer"
    declared,   \* the methods of the instance: the example servers' or a subclass's
    pc,         \* position of the stdin loop: "await", "read", "done", "exited"
    line,       \* the input line held by the loop (NoLine between iterations)
    response,   \* what the dispatcher returned for `line`
    raised,     \* the exception that escaped the dispatcher (None if none)
    invoked,    \* the handler invocations made while dispatching `line`
    outcome,    \* what the invoked handler did (NoOutcome if none was invoked)
    nread,      \* number of lines read from stdin so far
    printed,    \* number of lines written to stdout so far
    consumed,   \* what each line read so far was: blank, notification, request
    written,    \* the numbers of the lines answered on stdout, in output order
    status,     \* "running", "finished" (end of input), "failed" (exit(1)) or "crashed"
    file,       \* file mode: what open(args[0]) finds (NoFile in stdin mode)
    bookings,   \* AsyncMovieMCPServer.bookings: booking id -> booking details
    tasks,      \* the handler coroutines started on the movie server instance
    clock       \* the second time() is in

\* The state of the movie server's handlers, which the stdin loop of the
\* calculator examples never touches, and the input file of file mode.
aside == <<file, bookings, tasks, clock>>

vars == <<server, declared, pc, line, response, raised, invoked, outcome, nread, printed,
          consumed, written, status, aside>>

\* Bound of the model: the number of input lines a run reads.
MaxLines == 2

----------------------------------------------------------------------------
(* JSON / Python values *)

None == [t |-> "null"]
JStr(s) == [t |-> "str", s |-> s]
JInt(n) == [t |-> "int", n |-> n]
JFloat(n) == [t |-> "float", n |-> n]
JBool(b) == [t |-> "bool", b |-> b]
JList(items) == [t |-> "list", items |-> items]
JObj(f) == [t |-> "obj", f |-> f]
EmptyDict == JObj([k \in {} |-> None])

\* A marker used only while enumerating inputs: the key is left out.
Absent == [t |-> "absent"]

\* The dict holding the keys of record r whose value is not Absent.
DictOf(r) == JObj([k \in {k \in DOMAIN r : r[k] # Absent} |-> r[k]])

\* dict.get(key, default)
Get(d, key, default) == IF key \in DOMAIN d.f THEN d.f[key] ELSE default

\* Python truthiness of a value (`if x`, `not x`, `x or y`).
Truthy(v) ==
    CASE v.t = "null" -> FALSE
      [] v.t = "str"  -> v.s # ""
      [] v.t = "int"  -> v.n # 0
      [] v.t = "float" -> v.n # 0
      [] v.t = "bool" -> v.b
      [] v.t = "list" -> v.items # <<>>
      [] v.t = "obj"  -> DOMAIN v.f # {}
      [] OTHER        -> TRUE

\* The text an f-string or str() gives for a value that is used as a name.
Fmt(v) ==
    CASE v.t = "str"  -> v.s
      [] v.t = "null" -> "None"
      [] v.t = "int"  -> "<int>"
      [] OTHER        -> "<repr>"

\* Exceptions: the class and the text of str(e).
Exc(cls, text) == [cls |-> cls, text |-> text]

----------------------------------------------------------------------------
(* The server instance: its class and the methods getmembers() finds on it *)

Servers == {"MCPServer", "AsyncMCPServer"}

\* Type annotations, as typing.get_type_hints returns them.
Ty(tag) == [tag |-> tag, args |-> <<>>]
Generic(tag, args) == [tag |-> tag, args |-> args]
OptionalOf(ty) == Generic("Union", <<ty, Ty("NoneType")>>)
\* T | None written with the | operator: its get_origin is types.UnionType,
\* not typing.Union, on the interpreters that tell the two apart.
BarNone(ty) == Generic("UnionType", <<ty, Ty("NoneType")>>)

\* A declared parameter of a handler (inspect.Parameter); `self` is kept out
\* of the list here and filtered by the code that walks the signature.
Required(name, ty) == [name |-> name, type |-> ty, hasDefault |-> FALSE, default |-> None]
Defaulted(name, ty, dflt) == [name |-> name, type |-> ty, hasDefault |-> TRUE, default |-> dflt]

Method(prefix, name, params, isAsync, doc) ==
    [prefix |-> prefix, name |-> name, params |-> params, isAsync |-> isAsync, doc |-> doc]

\* Handlers of the example servers and of the test servers.  A docstring is the
\* sequence of the lines of getdoc(method), a line the sequence of its
\* characters; the prose of the docstrings is shortened, the category lines
\* are the source's.
tool_add ==
    Method("tool_", "add",
           <<Required("a", Ty("float")), Required("b", Ty("float"))>>, FALSE,
           << <<"A","d","d"," ","t","w","o"," ","n","u","m","b","e","r","s",".">>,
              <<>>,
              <<"A","r","g","s",":">> >>)
tool_divide ==
    Method("tool_", "divide",
           <<Required("a", Ty("float")), Required("b", Ty("float"))>>, FALSE,
           << <<"D","i","v","i","d","e"," ","f","i","r","s","t"," ","b","y"," ","s","e","c","o","n","d",".">>,
              <<>>,
              <<"A","r","g","s",":">> >>)
tool_divide_async ==
    Method("tool_", "divide_async",
           <<Required("a", Ty("float")), Required("b", Ty("float"))>>, TRUE,
           << <<"D","i","v","i","d","e"," ","f","i","r","s","t"," ","b","y"," ","s","e","c","o","n","d",".">>,
              <<>>,
              <<"A","r","g","s",":">> >>)
tool_get_movies ==
    Method("tool_", "get_movies", <<>>, FALSE,
           << <<"G","e","t"," ","a"," ","l","i","s","t"," ","o","f"," ","m","o","v","i","e","s",".">> >>)
tool_search_movies ==
    Method("tool_", "search_movies",
           <<Defaulted("title", OptionalOf(Ty("str")), None),
             Defaulted("min_price", OptionalOf(Ty("float")), None),
             Defaulted("max_price", OptionalOf(Ty("float")), None)>>, FALSE,
           << <<"S","e","a","r","c","h"," ","f","o","r"," ","m","o","v","i","e","s",".">>,
              <<>>,
              <<"A","r","g","s",":">> >>)
tool_multiply_async ==
    Method("tool_", "multiply_async",
           <<Required("a", Ty("float")), Required("b", Ty("float"))>>, TRUE,
           << <<"M","u","l","t","i","p","l","y"," ","t","w","o"," ","n","u","m","b","e","r","s",".">>,
              <<>>,
              <<"A","r","g","s",":">> >>)
prompt_brainstorm ==
    Method("prompt_", "brainstorm",
           <<Required("topic", Ty("str")), Defaulted("ideas", Ty("int"), JInt(3))>>, FALSE,
           << <<"C","r","e","a","t","e"," ","a"," ","p","r","o","m","p","t",".">>,
              <<"C","a","t","e","g","o","r","i","e","s",":"," ","i","d","e","a","t","i","o","n",","," ","c","r","e","a","t","i","v","e">>,
              <<"P","r","o","v","i","d","e"," ","a"," ","b","o","d","y",".">> >>)
prompt_dialog_async ==
    Method("prompt_", "dialog_async",
           <<Defaulted("persona", Ty("str"), JStr("assistant"))>>, TRUE,
           << <<"R","e","t","u","r","n"," ","m","e","s","s","a","g","e","s",".">>,
              <<"[","c","a","t","e","g","o","r","i","e","s",":"," ","c","o","n","v","e","r","s","a","t","i","o","n",",","t","e","s","t","]">>,
              <<"S","i","m","u","l","a","t","e","s"," ","w","o","r","k",".">> >>)

\* Framework methods every instance has too (they carry neither prefix).
get_config_method == Method("", "get_config", <<>>, FALSE, << <<"G","e","n","e","r","a","t","e"," ","c","o","n","f","i","g",".">> >>)
run_method == Method("", "run", <<Defaulted("args", Ty("list"), None)>>, FALSE, << <<"R","u","n"," ","t","h","e"," ","M","C","P"," ","s","e","r","v","e","r",".">> >>)

\* The instance is one of the example servers, or an instance of a
\* subclass that declares the given methods.
Examples == [kind |-> "examples", methods |-> <<>>]
Subclass(methods) == [kind |-> "subclass", methods |-> methods]

\* getmembers(self, predicate=ismethod): the methods of the instance, sorted
\* by attribute name.  The synchronous example servers define no coroutine
\* handlers.
ExampleMembers(srv) ==
    IF srv = "AsyncMCPServer"
    THEN <<get_config_method, prompt_brainstorm, prompt_dialog_async, run_method,
           tool_add, tool_divide_async, tool_get_movies, tool_multiply_async,
           tool_search_movies>>
    ELSE <<get_config_method, prompt_brainstorm, run_method,
           tool_add, tool_divide, tool_get_movies, tool_search_movies>>

Members(srv) ==
    IF declared.kind = "subclass" THEN declared.methods ELSE ExampleMembers(srv)

Range(seq) == {seq[i] : i \in DOMAIN seq}

\* hasattr(self, prefix + name) / getattr(self, prefix + name, None)
hasattr(srv, prefix, name) ==
    \E m \in Range(Members(srv)) : m.prefix = prefix /\ m.name = name
getattr(srv, prefix, name) ==
    CHOOSE m \in Range(Members(srv)) : m.prefix = prefix /\ m.name = name

----------------------------------------------------------------------------
(* What a handler does when it is called: the tool and prompt bodies are   *)
(* opaque callables, so the outcome of a call is an input of the model.    *)

Message(role, text) ==
    JObj([k \in {"role", "content"} |->
            IF k = "role" THEN JStr(role)
            ELSE JObj([j \in {"type", "text"} |-> IF j = "type" THEN JStr("text") ELSE text])])

ReturnValues ==
    { None,
      JStr("What is the product?"),
      JInt(15),
      JObj([k \in {"result"} |-> JInt(15)]),
      JList(<<JInt(15)>>),
      JList(<<Message("system", JStr("You are acting as tester.")),
             Message("user", JStr("Introduce yourself briefly."))>>),
      JObj([k \in {"messages"} |-> JList(<<Message("user", JStr("hello"))>>)]),
      JList(<<Message("system", JStr("You are acting as tester.")), JInt(15)>>),
      JObj([k \in {"messages"} |-> JStr("hello")]) }

Exceptions ==
    { Exc("ValueError", <<"bad value">>),
      Exc("TypeError", <<"unsupported operand">>),
      Exc("KeyError", <<"'", "movie", "'">>),
      Exc("ZeroDivisionError", <<"division by zero">>),
      Exc("RuntimeError", <<"backend down">>) }

Returns(v) == [kind |-> "return", value |-> v, exc |-> None]
Raises(e) == [kind |-> "raise", value |-> None, exc |-> e]
Outcomes == {Returns(v) : v \in ReturnValues} \cup {Raises(e) : e \in Exceptions}

\* The bodies of the calculator's tools, for numeric arguments.  A domain
\* failure is signalled by returning a dict with the key `error`.
DomainError(text) == JObj([k \in {"error"} |-> JStr(text)])

tool_add_body(srv, kwargs) ==
    LET result == JInt(kwargs["a"].n + kwargs["b"].n)
        fields == ("operation" :> JStr("addition")) @@ ("a" :> kwargs["a"])
                  @@ ("b" :> kwargs["b"]) @@ ("result" :> result)
    IN  Returns(JObj(IF srv = "AsyncMCPServer"
                     THEN fields @@ ("async" :> JBool(FALSE)) ELSE fields))

\* a / b is a float; the arguments of the model divide exactly.
tool_divide_body(kwargs) ==
    IF kwargs["b"].n = 0
    THEN Returns(DomainError("Division by zero is not allowed"))
    ELSE Returns(JObj(("operation" :> JStr("division")) @@ ("a" :> kwargs["a"])
                      @@ ("b" :> kwargs["b"])
                      @@ ("result" :> JFloat(kwargs["a"].n \div kwargs["b"].n))))

tool_divide_async_body(kwargs) ==
    IF kwargs["b"].n = 0
    THEN Returns(DomainError("Division by zero is not allowed"))
    ELSE Returns(JObj(("operation" :> JStr("division")) @@ ("a" :> kwargs["a"])
                      @@ ("b" :> kwargs["b"])
                      @@ ("result" :> JFloat(kwargs["a"].n \div kwargs["b"].n))
                      @@ ("async" :> JBool(TRUE))))

----------------------------------------------------------------------------
(* Introspection: signatures to JSON schema, members to descriptors *)

\* Mutant of _type_to_json_schema: the generic branches do not descend, so
\* List[T] loses its `items`.
_type_to_json_schema_flat(param_type) ==
    CASE param_type = None \/ param_type = Ty("NoneType") -> [type |-> "null"]
      [] param_type = Ty("str")   -> [type |-> "string"]
      [] param_type = Ty("int")   -> [type |-> "integer"]
      [] param_type = Ty("float") -> [type |-> "number"]
      [] param_type = Ty("bool")  -> [type |-> "boolean"]
      [] param_type = Ty("list")  -> [type |-> "array"]
      [] param_type = Ty("dict")  -> [type |-> "object"]
      [] OTHER ->
         IF param_type.tag = "List" THEN [type |-> "array"]
         ELSE IF param_type.tag = "Dict" THEN [type |-> "object"]
         ELSE [type |-> "string"]

\* _type_to_json_schema (the two servers carry the same translator).
RECURSIVE _type_to_json_schema(_)
_type_to_json_schema(param_type) ==
    CASE param_type = None \/ param_type = Ty("NoneType") -> [type |-> "null"]
      [] param_type = Ty("str")   -> [type |-> "string"]
      [] param_type = Ty("int")   -> [type |-> "integer"]
      [] param_type = Ty("float") -> [type |-> "number"]
      [] param_type = Ty("bool")  -> [type |-> "boolean"]
      [] param_type = Ty("list")  -> [type |-> "array"]
      [] param_type = Ty("dict")  -> [type |-> "object"]
      [] OTHER ->
         LET origin == param_type.tag
             args == param_type.args
         IN  IF origin = "Union" /\ Len(args) = 2
                /\ (args[1] = Ty("NoneType") \/ args[2] = Ty("NoneType"))
             THEN _type_to_json_schema(IF args[2] = Ty("NoneType") THEN args[1] ELSE args[2])
             ELSE IF origin = "List"
             THEN IF args # <<>>
                  THEN [type |-> "array", items |-> _type_to_json_schema(args[1])]
                  ELSE [type |-> "array"]
             ELSE IF origin = "Dict"
             THEN [type |-> "object"]
             ELSE [type |-> "string"]

\* An annotation that names a type the module cannot resolve (a forward
\* reference, a missing import).
Unresolvable == Ty("ForwardRef")

\* get_type_hints(method) inside try/except: the annotations by parameter
\* name, or {} when resolving them raises NameError.
get_type_hints(method) ==
    LET params == method.params
        annotated == {i \in DOMAIN params : params[i].type # None}
    IN  IF \E i \in annotated : params[i].type = Unresolvable
        THEN [n \in {} |-> None]
        ELSE [n \in {params[i].name : i \in annotated} |->
                 (CHOOSE p \in Range(params) : p.name = n).type]

\* Mutant of required_of: the scan stops at the first parameter that has a
\* default, as if required parameters could only come first.
required_of_leading(params) ==
    LET stops == {i \in DOMAIN params : params[i].hasDefault}
        last == IF stops = {} THEN Len(params)
                ELSE (CHOOSE i \in stops : \A j \in stops : i <= j) - 1
    IN  [i \in 1..last |-> params[i].name]

\* The names of the parameters without a default, in declaration order.
RECURSIVE required_of(_)
required_of(params) ==
    IF params = <<>> THEN <<>>
    ELSE (IF Head(params).hasDefault THEN <<>> ELSE <<Head(params).name>>)
         \o required_of(Tail(params))

\* [param for name, param in sig.parameters.items() if name != 'self']:
\* signature() of a bound method already leaves the receiver out; the filter
\* drops any parameter that is itself called `self`.
not_self(params) == SelectSeq(params, LAMBDA p : p.name # "self")

\* Mutant of _extract_parameters_from_signature: the early `return {}` is
\* missing, so a handler without parameters gets an object schema with
\* empty properties.
_extract_parameters_from_signature_always_object(method) ==
    LET params == not_self(method.params)
        type_hints == get_type_hints(method)
        param_type(i) == IF params[i].name \in DOMAIN type_hints
                         THEN type_hints[params[i].name] ELSE None
        properties == [i \in DOMAIN params |->
                          <<params[i].name, _type_to_json_schema(param_type(i))>>]
        required == required_of(params)
    IN  IF required # <<>>
        THEN [type |-> "object", properties |-> properties, required |-> required]
        ELSE [type |-> "object", properties |-> properties]

\* AsyncMCPServer._extract_parameters_from_signature: {} for a handler
\* without parameters, else the object schema; `required` only if non-empty.
_extract_parameters_from_signature(method) ==
    LET params == not_self(method.params)
        type_hints == get_type_hints(method)
        param_type(i) == IF params[i].name \in DOMAIN type_hints
                         THEN type_hints[params[i].name] ELSE None
        properties == [i \in DOMAIN params |->
                          <<params[i].name, _type_to_json_schema(param_type(i))>>]
        required == required_of(params)
    IN  IF params = <<>> THEN EmptyDict
        ELSE IF required # <<>>
             THEN [type |-> "object", properties |-> properties, required |-> required]
             ELSE [type |-> "object", properties |-> properties]

\* getdoc(method) or the synthesized description.
Synthesized(before, name, after) == [t |-> "fstring", pieces |-> <<before, name, after>>]
DocText(doc) == [t |-> "text", lines |-> doc]
tool_description(method) ==
    IF method.doc # <<>> THEN DocText(method.doc)
    ELSE Synthesized("Execute ", method.name, " tool")
prompt_description(method) ==
    IF method.doc # <<>> THEN DocText(method.doc)
    ELSE Synthesized("Prompt template ", method.name, "")

\* Mutant of SelectPrefix: every method that carries a handler prefix is
\* taken, whichever prefix was asked for.
SelectPrefix_any_handler(members, prefix) == SelectSeq(members, LAMBDA m : m.prefix # "")

SelectPrefix(members, prefix) == SelectSeq(members, LAMBDA m : m.prefix = prefix)

\* MCPServer.discover_tools
discover_tools_sync(srv) ==
    LET found == SelectPrefix(Members(srv), "tool_")
    IN  [tools |-> [i \in DOMAIN found |->
                       [name |-> found[i].name,
                        description |-> tool_description(found[i]),
                        parameters |-> _extract_parameters_from_signature(found[i])]]]

\* AsyncMCPServer.discover_tools
discover_tools(srv) ==
    LET found == SelectPrefix(Members(srv), "tool_")
        tool_def(m) ==
            LET parameters == _extract_parameters_from_signature(m)
            IN  IF parameters # EmptyDict
                THEN [name |-> m.name, description |-> tool_description(m),
                      async |-> m.isAsync, inputSchema |-> parameters]
                ELSE [name |-> m.name, description |-> tool_description(m),
                      async |-> m.isAsync]
    IN  [tools |-> [i \in DOMAIN found |-> tool_def(found[i])]]

----------------------------------------------------------------------------
(* _extract_prompt_categories: the regular expressions, character by       *)
(* character                                                               *)

\* \s and str.strip(): whitespace.
IsSpace(c) == c \in {" ", "\t"}

\* str.lower() / re.IGNORECASE on one character.
Upper == <<"A","B","C","D","E","F","G","H","I","J","K","L","M",
           "N","O","P","Q","R","S","T","U","V","W","X","Y","Z">>
LowerOf == <<"a","b","c","d","e","f","g","h","i","j","k","l","m",
             "n","o","p","q","r","s","t","u","v","w","x","y","z">>
lower(c) == IF \E i \in DOMAIN Upper : Upper[i] = c
            THEN LowerOf[CHOOSE i \in DOMAIN Upper : Upper[i] = c]
            ELSE c
lower_str(s) == [i \in DOMAIN s |-> lower(s[i])]

\* s[i..j] (1-based, inclusive); empty when j < i.
Slice(s, i, j) == IF j < i THEN <<>> ELSE SubSeq(s, i, j)

\* Does pattern pat match s at position i, ignoring case?
MatchAt(s, i, pat) ==
    /\ i + Len(pat) - 1 <= Len(s)
    /\ \A k \in DOMAIN pat : lower(s[i + k - 1]) = lower(pat[k])

\* The first position >= i of s that holds no whitespace (Len(s)+1 if none).
RECURSIVE SkipSpace(_, _)
SkipSpace(s, i) ==
    IF i <= Len(s) /\ IsSpace(s[i]) THEN SkipSpace(s, i + 1) ELSE i

\* str.strip()
RECURSIVE rstrip(_)
rstrip(s) == IF s # <<>> /\ IsSpace(s[Len(s)]) THEN rstrip(Slice(s, 1, Len(s) - 1)) ELSE s
strip(s) == rstrip(Slice(s, SkipSpace(s, 1), Len(s)))

\* str.split(','): the pieces between the commas (always at least one).
RECURSIVE split(_)
split(s) ==
    IF \E i \in DOMAIN s : s[i] = ","
    THEN LET i == CHOOSE j \in DOMAIN s : s[j] = "," /\ \A k \in 1..(j - 1) : s[k] # ","
         IN  <<Slice(s, 1, i - 1)>> \o split(Slice(s, i + 1, Len(s)))
    ELSE <<s>>

\* Mutant of tokens_of: the tokens are trimmed but keep their case.
tokens_of_keeping_case(group) ==
    LET pieces == split(group)
        kept == SelectSeq(pieces, LAMBDA c : strip(c) # <<>>)
    IN  [i \in DOMAIN kept |-> strip(kept[i])]

\* [c.strip().lower() for c in group.split(',') if c.strip()]
tokens_of(group) ==
    LET pieces == split(group)
        kept == SelectSeq(pieces, LAMBDA c : strip(c) # <<>>)
    IN  [i \in DOMAIN kept |-> lower_str(strip(kept[i]))]

\* The position after `categor(?:y|ies):` when it matches at i, else 0.
AfterLabel(s, i) ==
    IF ~MatchAt(s, i, <<"c","a","t","e","g","o","r">>) THEN 0
    ELSE IF MatchAt(s, i + 7, <<"y",":">>) THEN i + 9
    ELSE IF MatchAt(s, i + 7, <<"i","e","s",":">>) THEN i + 11
    ELSE 0

\* What `\s*(X+)` captures of a non-empty text: the text after its leading
\* whitespace, or its last character when it is all whitespace (the greedy
\* \s* gives one character back).
Captured(text) ==
    LET m == SkipSpace(text, 1)
    IN  IF m <= Len(text) THEN Slice(text, m, Len(text)) ELSE <<text[Len(text)]>>

\* pattern_line.match(ln): ^\s*Categor(?:y|ies):\s*(.+)$  -- group(1) in a
\* one-element sequence, or <<>> when the line does not match.
pattern_line(ln) ==
    LET k == AfterLabel(ln, SkipSpace(ln, 1))
    IN  IF k = 0 \/ k > Len(ln) THEN <<>> ELSE <<Captured(Slice(ln, k, Len(ln)))>>

\* bracket_pattern.findall(ln) from position p on:
\* \[(?:categor(?:y|ies)):\s*([^\]]+)\]  -- the groups, left to right.
RECURSIVE bracket_pattern(_, _)
bracket_pattern(ln, p) ==
    IF p > Len(ln) THEN <<>>
    ELSE LET k == IF ln[p] = "[" THEN AfterLabel(ln, p + 1) ELSE 0
             closes == {e \in k..Len(ln) : ln[e] = "]"}
         IN  IF k = 0 \/ closes = {} THEN bracket_pattern(ln, p + 1)
             ELSE LET e == CHOOSE x \in closes : \A y \in closes : x <= y
                  IN  IF e = k THEN bracket_pattern(ln, p + 1)
                      ELSE <<Captured(Slice(ln, k, e - 1))>> \o bracket_pattern(ln, e + 1)

RECURSIVE Flatten(_)
Flatten(seqs) == IF seqs = <<>> THEN <<>> ELSE Head(seqs) \o Flatten(Tail(seqs))

\* The tokens one line contributes: the label match first, then the brackets.
line_categories(ln) ==
    LET m == pattern_line(ln)
        b == bracket_pattern(ln, 1)
    IN  (IF m # <<>> THEN tokens_of(m[1]) ELSE <<>>)
        \o Flatten([i \in DOMAIN b |-> tokens_of(b[i])])

\* Keep the first occurrence of every element.
RECURSIVE dedup(_, _)
dedup(cats, seen) ==
    IF cats = <<>> THEN <<>>
    ELSE IF Head(cats) \in seen THEN dedup(Tail(cats), seen)
    ELSE <<Head(cats)>> \o dedup(Tail(cats), seen \cup {Head(cats)})

\* _extract_prompt_categories(doc); doc is the sequence of doc.splitlines().
_extract_prompt_categories(doc) ==
    dedup(Flatten([i \in DOMAIN doc |-> line_categories(doc[i])]), {})

\* AsyncMCPServer.discover_prompts
discover_prompts(srv) ==
    LET found == SelectPrefix(Members(srv), "prompt_")
    IN  [prompts |-> [i \in DOMAIN found |->
                         [name |-> found[i].name,
                          description |-> prompt_description(found[i]),
                          inputSchema |-> _extract_parameters_from_signature(found[i]),
                          categories |-> _extract_prompt_categories(found[i].doc)]]]

----------------------------------------------------------------------------
(* JSON-RPC envelopes *)

PARSE_ERROR == -32700
INVALID_REQUEST == -32600
METHOD_NOT_FOUND == -32601
INVALID_PARAMS == -32602
INTERNAL_ERROR == -32603

\* create_error(code, message)
create_error(code, message) == [code |-> code, message |-> message]

\* create_response(request_id, result, error): the envelope carries `error`
\* when an error is given and `result` otherwise.
create_response(request_id, result, error) ==
    IF error # None
    THEN [jsonrpc |-> "2.0", id |-> request_id, error |-> error]
    ELSE [jsonrpc |-> "2.0", id |-> request_id, result |-> result]

\* What a dispatcher call comes to: the value it returns (an envelope or
\* None), or the exception that escapes it, and the handler calls it made.
Returned(envelope, calls) == [ret |-> envelope, raised |-> None, calls |-> calls]
Escaped(exc, calls) == [ret |-> None, raised |-> exc, calls |-> calls]

\* `x.get(...)` on a value that is no dict.
NotADict == Exc("AttributeError", <<"object has no attribute 'get'">>)

\* Mutant of thread_of: every handler is called on the dispatch loop.
thread_of_always_loop(method) == "loop"

\* Where AsyncMCPServer runs a handler: `await method(**kwargs)` on the loop
\* for a coroutine function, run_in_executor(None, ...) on a worker thread
\* of the default pool otherwise.
thread_of(method) == IF method.isAsync THEN "loop" ELSE "worker"

\* One handler invocation: the method, its keyword arguments, the thread.
Call(method, kwargs, on) ==
    [prefix |-> method.prefix, name |-> method.name, kwargs |-> kwargs, on |-> on]

NoKwargs == [k \in {} |-> None]

----------------------------------------------------------------------------
(* Serialization: text is the sequence of its tokens (whitespace left out) *)

Text(toks) == [t |-> "text", toks |-> toks]

\* The keys of a dict in the order the dict yields them.
KeyOrder(f) ==
    CHOOSE order \in [1..Cardinality(DOMAIN f) -> DOMAIN f] :
        \A i, j \in DOMAIN order : i # j => order[i] # order[j]

\* The tokens json.dumps writes for a value.
RECURSIVE json_tokens(_)
json_tokens(v) ==
    CASE v.t = "null"  -> <<"null">>
      [] v.t = "bool"  -> <<IF v.b THEN "true" ELSE "false">>
      [] v.t = "int"   -> <<ToString(v.n)>>
      [] v.t = "float" ->
         IF "hundredths" \in DOMAIN v
         THEN <<ToString(v.n) \o "."
                \o (IF v.hundredths % 10 = 0 THEN ToString(v.hundredths \div 10)
                    ELSE IF v.hundredths < 10 THEN "0" \o ToString(v.hundredths)
                    ELSE ToString(v.hundredths))>>
         ELSE <<ToString(v.n) \o ".0">>
      [] v.t = "str"   -> <<"\"", v.s, "\"">>
      [] v.t = "list"  ->
         LET RECURSIVE items(_)
             items(i) ==
                 IF i > Len(v.items) THEN <<>>
                 ELSE (IF i > 1 THEN <<",">> ELSE <<>>)
                      \o json_tokens(v.items[i]) \o items(i + 1)
         IN  <<"[">> \o items(1) \o <<"]">>
      [] v.t = "obj"   ->
         LET order == KeyOrder(v.f)
             RECURSIVE members(_)
             members(i) ==
                 IF i > Len(order) THEN <<>>
                 ELSE (IF i > 1 THEN <<",">> ELSE <<>>)
                      \o <<"\"", order[i], "\"", ":">>
                      \o json_tokens(v.f[order[i]]) \o members(i + 1)
         IN  <<"{">> \o members(1) \o <<"}">>

\* json.dumps(value)
dumps(value) == Text(json_tokens(value))

\* str(value) of a value that is neither a dict nor a list.
str(value) ==
    CASE value.t = "str"   -> Text(<<value.s>>)
      [] value.t = "int"   -> Text(<<ToString(value.n)>>)
      [] value.t = "float" -> Text(<<ToString(value.n) \o ".0">>)
      [] value.t = "bool"  -> Text(<<IF value.b THEN "True" ELSE "False">>)
      [] value.t = "null"  -> Text(<<"None">>)

\* json.loads(text): a recursive-descent parse of the tokens.  A parse gives
\* the value and the position after it, or fails.
Numerals == -1 .. 20
Parsed(value, next) == [ok |-> TRUE, value |-> value, next |-> next]
ParseFail == [ok |-> FALSE, value |-> None, next |-> 0]

RECURSIVE parse_value(_, _)
RECURSIVE parse_items(_, _, _)
RECURSIVE parse_members(_, _, _)
parse_value(toks, i) ==
    IF i > Len(toks) THEN ParseFail
    ELSE LET tok == toks[i]
         IN  IF tok = "null" THEN Parsed(None, i + 1)
             ELSE IF tok = "true" THEN Parsed(JBool(TRUE), i + 1)
             ELSE IF tok = "false" THEN Parsed(JBool(FALSE), i + 1)
             ELSE IF tok = "\""
             THEN IF i + 2 <= Len(toks) /\ toks[i + 2] = "\""
                  THEN Parsed(JStr(toks[i + 1]), i + 3) ELSE ParseFail
             ELSE IF tok = "["
             THEN IF i + 1 <= Len(toks) /\ toks[i + 1] = "]"
                  THEN Parsed(JList(<<>>), i + 2)
                  ELSE parse_items(toks, i + 1, <<>>)
             ELSE IF tok = "{"
             THEN IF i + 1 <= Len(toks) /\ toks[i + 1] = "}"
                  THEN Parsed(EmptyDict, i + 2)
                  ELSE parse_members(toks, i + 1, EmptyDict.f)
             ELSE IF \E n \in Numerals : ToString(n) = tok
             THEN Parsed(JInt(CHOOSE n \in Numerals : ToString(n) = tok), i + 1)
             ELSE IF \E n \in Numerals : ToString(n) \o ".0" = tok
             THEN Parsed(JFloat(CHOOSE n \in Numerals : ToString(n) \o ".0" = tok), i + 1)
             ELSE ParseFail
parse_items(toks, i, acc) ==
    LET v == parse_value(toks, i)
    IN  IF ~v.ok \/ v.next > Len(toks) THEN ParseFail
        ELSE IF toks[v.next] = ","
        THEN parse_items(toks, v.next + 1, Append(acc, v.value))
        ELSE IF toks[v.next] = "]"
        THEN Parsed(JList(Append(acc, v.value)), v.next + 1)
        ELSE ParseFail
parse_members(toks, i, acc) ==
    IF i + 3 > Len(toks) \/ toks[i] # "\"" \/ toks[i + 2] # "\"" \/ toks[i + 3] # ":"
    THEN ParseFail
    ELSE LET key == toks[i + 1]
             v == parse_value(toks, i + 4)
             more == (key :> v.value) @@ acc
         IN  IF ~v.ok \/ v.next > Len(toks) THEN ParseFail
             ELSE IF toks[v.next] = ","
             THEN parse_members(toks, v.next + 1, more)
             ELSE IF toks[v.next] = "}"
             THEN Parsed(JObj(more), v.next + 1)
             ELSE ParseFail

\* The value json.loads gives for a text, or JSONDecodeError.
JSONDecodeError == [t |-> "JSONDecodeError"]
loads(text) ==
    LET r == parse_value(text.toks, 1)
    IN  IF r.ok /\ r.next = Len(text.toks) + 1 THEN r.value ELSE JSONDecodeError

----------------------------------------------------------------------------
(* MovieMCPServer.tool_book_ticket, and what calling a handler does *)

\* isinstance(v, int): bool is a subclass of int, True is 1 and False is 0.
IsInt(v) == v.t \in {"int", "bool"}
IntOf(v) == IF v.t = "bool" THEN (IF v.b THEN 1 ELSE 0) ELSE v.n

\* The characters of the show times the model calls the tool with.
Chars(s) ==
    CASE s = ""        -> <<>>
      [] s = " "       -> <<" ">>
      [] s = "20:30"   -> <<"2","0",":","3","0">>
      [] s = " 20:30 " -> <<" ","2","0",":","3","0"," ">>

\* A float with two decimals: n + hundredths / 100.
JHundredths(c) == [t |-> "float", n |-> c \div 100, hundredths |-> c % 100]

tool_book_ticket ==
    Method("tool_", "book_ticket",
           <<Required("movie_id", Ty("int")), Required("show_time", Ty("str")),
             Required("num_tickets", Ty("int"))>>, FALSE,
           << <<"B","o","o","k"," ","m","o","v","i","e"," ","t","i","c","k","e","t","s",".">>,
              <<>>,
              <<"A","r","g","s",":">> >>)
tool_get_showtimes ==
    Method("tool_", "get_showtimes", <<Required("movie_id", Ty("int"))>>, FALSE,
           << <<"G","e","t"," ","s","h","o","w","t","i","m","e","s",".">>,
              <<>>,
              <<"A","r","g","s",":">> >>)

\* The body of tool_book_ticket at second `now`.  Nothing in it raises for
\* the arguments of the model (num_tickets * 12.99 raises OverflowError only
\* beyond the range of a float, and that is not among the caught classes).
tool_book_ticket_body(kwargs, now) ==
    LET movie_id == kwargs["movie_id"]
        show_time == kwargs["show_time"]
        num_tickets == kwargs["num_tickets"]
    IN  IF \/ movie_id = None \/ ~IsInt(movie_id) \/ IntOf(movie_id) <= 0
           \/ show_time = None \/ show_time.t # "str" \/ strip(Chars(show_time.s)) = <<>>
           \/ num_tickets = None \/ ~IsInt(num_tickets) \/ IntOf(num_tickets) <= 0
        THEN Returns(None)
        ELSE Returns(JObj(("bookingId" :> JStr("BK" \o ToString(now)))
                          @@ ("movieId" :> movie_id)
                          @@ ("showTime" :> show_time)
                          @@ ("numTickets" :> num_tickets)
                          @@ ("totalPrice" :> JHundredths(IntOf(num_tickets) * 1299))))

\* method(**kwargs): the calculator's tools and book_ticket run their
\* bodies, every other handler is an opaque callable that does `out`.
invoke(srv, call, out) ==
    IF call.prefix = "tool_" /\ call.name = "add"
    THEN tool_add_body(srv, call.kwargs)
    ELSE IF call.prefix = "tool_" /\ call.name = "divide"
    THEN tool_divide_body(call.kwargs)
    ELSE IF call.prefix = "tool_" /\ call.name = "divide_async"
    THEN tool_divide_async_body(call.kwargs)
    ELSE IF call.prefix = "tool_" /\ call.name = "book_ticket"
    THEN tool_book_ticket_body(call.kwargs, clock)
    ELSE out

----------------------------------------------------------------------------
(* Binding the caller's arguments to the declared parameters *)

ParamNames(params) == {params[i].name : i \in DOMAIN params}

\* Mutant of unbound: the branch that falls back to the declared default is
\* missing, so every parameter that is not supplied counts as missing.
unbound_ignoring_defaults(params, arguments) ==
    SelectSeq(params, LAMBDA p : p.name \notin DOMAIN arguments.f)

\* The declared parameters, in order, that get no value: not supplied and
\* without a default.
unbound(params, arguments) ==
    SelectSeq(params, LAMBDA p : p.name \notin DOMAIN arguments.f /\ ~p.hasDefault)

\* Mutant of kwargs_of: every supplied argument is passed on, declared or
\* not.
kwargs_of_all_supplied(params, arguments) ==
    [n \in ParamNames(params) \cup DOMAIN arguments.f |->
        IF n \in DOMAIN arguments.f THEN arguments.f[n]
        ELSE (CHOOSE p \in Range(params) : p.name = n).default]

\* kwargs: the supplied value if present, else the declared default.
kwargs_of(params, arguments) ==
    [n \in ParamNames(params) |->
        IF n \in DOMAIN arguments.f THEN arguments.f[n]
        ELSE (CHOOSE p \in Range(params) : p.name = n).default]

\* `param_name in arguments` when arguments is None.
NotIterable == Exc("TypeError", <<"argument of type 'NoneType' is not iterable">>)

----------------------------------------------------------------------------
(* tools/call *)

\* Mutant of tool_result: every return value goes through json.dumps.
tool_result_always_dumps(content) ==
    [content |-> << [type |-> "text", text |-> dumps(content)] >>]

\* The result of a successful tools/call: one text item holding the
\* serialized return value (dumps for a dict or a list, str otherwise).
tool_result(content) ==
    [content |-> << [type |-> "text",
                     text |-> IF content.t \in {"obj", "list"}
                              THEN dumps(content) ELSE str(content)] >>]

\* The exception classes the `except` clause of tools/call catches.
ToolCaught == {"ValueError", "TypeError", "KeyError"}

\* Mutant of handle_tools_call: the method is fetched with getattr without a
\* default and without the hasattr test, so an unknown name raises.
handle_tools_call_unchecked_getattr(srv, request_id, params, out) ==
    IF params.t # "obj" THEN Escaped(NotADict, <<>>)
    ELSE
    LET tool_name == Get(params, "name", JStr(""))
        arguments == Get(params, "arguments", EmptyDict)
        failed(text, calls) ==
            Returned(create_response(request_id, None,
                create_error(INTERNAL_ERROR,
                    <<"Tool execution error for ", Fmt(tool_name)>> \o text)), calls)
    IN  IF hasattr(srv, "tool_", Fmt(tool_name))
        THEN LET method == getattr(srv, "tool_", Fmt(tool_name))
                 sig == method.params
                 kwargs == IF sig = <<>> THEN NoKwargs ELSE kwargs_of(sig, arguments)
                 calls == <<Call(method, kwargs, "caller")>>
                 ran == invoke(srv, calls[1], out)
             IN  IF sig # <<>> /\ arguments.t # "obj"
                 THEN failed(<<": ">> \o NotIterable.text, <<>>)
                 ELSE IF sig # <<>> /\ unbound(sig, arguments) # <<>>
                 THEN failed(<<": ", "Required parameter '",
                               Head(unbound(sig, arguments)).name, "' is missing">>, <<>>)
                 ELSE IF ran.kind = "raise"
                 THEN IF ran.exc.cls \in ToolCaught
                      THEN failed(<<": ">> \o ran.exc.text, calls)
                      ELSE Escaped(ran.exc, calls)
                 ELSE IF ran.value = None
                 THEN failed(<<>>, calls)
                 ELSE Returned(create_response(request_id, tool_result(ran.value), None), calls)
        ELSE Escaped(Exc("AttributeError", <<"object has no attribute 'tool_", Fmt(tool_name), "'">>),
                     <<>>)

\* MCPServer.handle_tools_call(request_id, params); `out` is what the tool
\* does if it is called.
handle_tools_call(srv, request_id, params, out) ==
    IF params.t # "obj" THEN Escaped(NotADict, <<>>)
    ELSE
    LET tool_name == Get(params, "name", JStr(""))
        arguments == Get(params, "arguments", EmptyDict)
        failed(text, calls) ==
            Returned(create_response(request_id, None,
                create_error(INTERNAL_ERROR,
                    <<"Tool execution error for ", Fmt(tool_name)>> \o text)), calls)
    IN  IF hasattr(srv, "tool_", Fmt(tool_name))
        THEN LET method == getattr(srv, "tool_", Fmt(tool_name))
                 sig == method.params
                 kwargs == IF sig = <<>> THEN NoKwargs ELSE kwargs_of(sig, arguments)
                 calls == <<Call(method, kwargs, "caller")>>
                 ran == invoke(srv, calls[1], out)
             IN  IF sig # <<>> /\ arguments.t # "obj"
                 THEN failed(<<": ">> \o NotIterable.text, <<>>)
                 ELSE IF sig # <<>> /\ unbound(sig, arguments) # <<>>
                 THEN failed(<<": ", "Required parameter '",
                               Head(unbound(sig, arguments)).name, "' is missing">>, <<>>)
                 ELSE IF ran.kind = "raise"
                 THEN IF ran.exc.cls \in ToolCaught
                      THEN failed(<<": ">> \o ran.exc.text, calls)
                      ELSE Escaped(ran.exc, calls)
                 ELSE IF ran.value = None
                 THEN failed(<<>>, calls)
                 ELSE Returned(create_response(request_id, tool_result(ran.value), None), calls)
        ELSE Returned(create_response(request_id, None,
                 create_error(METHOD_NOT_FOUND, <<"Tool not found: ", Fmt(tool_name)>>)), <<>>)

\* AsyncMCPServer.handle_tools_call_async(request_id, params): a coroutine
\* handler is awaited on the loop, any other runs on a worker thread.
handle_tools_call_async(srv, request_id, params, out) ==
    IF params.t # "obj" THEN Escaped(NotADict, <<>>)
    ELSE
    LET tool_name == Get(params, "name", None)
        arguments == Get(params, "arguments", EmptyDict)
        failed(text, calls) ==
            Returned(create_response(request_id, None,
                create_error(INTERNAL_ERROR,
                    <<"Tool execution error for ", Fmt(tool_name)>> \o text)), calls)
    IN  IF ~Truthy(tool_name)
        THEN Returned(create_response(request_id, None,
                 create_error(INVALID_PARAMS, <<"Missing 'name' parameter">>)), <<>>)
        ELSE IF hasattr(srv, "tool_", Fmt(tool_name))
        THEN LET method == getattr(srv, "tool_", Fmt(tool_name))
                 sig == method.params
                 kwargs == IF sig = <<>> THEN NoKwargs ELSE kwargs_of(sig, arguments)
                 calls == <<Call(method, kwargs, thread_of(method))>>
                 ran == invoke(srv, calls[1], out)
             IN  IF sig # <<>> /\ arguments.t # "obj"
                 THEN failed(<<": ">> \o NotIterable.text, <<>>)
                 ELSE IF sig # <<>> /\ unbound(sig, arguments) # <<>>
                 THEN failed(<<": ", "Required parameter '",
                               Head(unbound(sig, arguments)).name, "' is missing">>, <<>>)
                 ELSE IF ran.kind = "raise"
                 THEN IF ran.exc.cls \in ToolCaught
                      THEN failed(<<": ">> \o ran.exc.text, calls)
                      ELSE Escaped(ran.exc, calls)
                 ELSE IF ran.value = None
                 THEN failed(<<>>, calls)
                 ELSE Returned(create_response(request_id, tool_result(ran.value), None), calls)
        ELSE Returned(create_response(request_id, None,
                 create_error(METHOD_NOT_FOUND, <<"Tool not found: ", Fmt(tool_name)>>)), <<>>)

----------------------------------------------------------------------------
(* prompts/get *)

\* Is ret a list whose every element is a dict with `role` and `content`?
is_message_list(ret) ==
    /\ ret.t = "list"
    /\ \A i \in DOMAIN ret.items :
          /\ ret.items[i].t = "obj"
          /\ {"role", "content"} \subseteq DOMAIN ret.items[i].f

\* Mutant of messages_of: only a text return is recognised, every other
\* return value is stringified.
messages_of_stringifying_lists(ret) ==
    IF ret.t = "str"
    THEN JList(<<Message("user", ret)>>)
    ELSE JList(<<Message("user", dumps(ret))>>)

\* The messages derived from what the prompt handler returned.
messages_of(ret) ==
    IF ret.t = "str"
    THEN JList(<<Message("user", ret)>>)
    ELSE IF is_message_list(ret)
    THEN ret
    ELSE IF ret.t = "obj" /\ "messages" \in DOMAIN ret.f /\ ret.f["messages"].t = "list"
    THEN ret.f["messages"]
    ELSE JList(<<Message("user", dumps(ret))>>)

PromptCaught == {"ValueError", "TypeError"}

\* Mutant of handle_prompt_get_async: the `if arguments:` test is missing, so
\* the prompt is rendered whether or not arguments were supplied.
handle_prompt_get_async_always_renders(srv, request_id, params, out) ==
    IF params.t # "obj" THEN Escaped(NotADict, <<>>)
    ELSE
    LET prompt_name == Get(params, "name", None)
        failed(text, calls) ==
            Returned(create_response(request_id, None,
                create_error(INTERNAL_ERROR, <<"Prompt execution error: ">> \o text)), calls)
    IN  IF ~Truthy(prompt_name)
        THEN Returned(create_response(request_id, None,
                 create_error(INVALID_PARAMS, <<"Missing required parameter 'name'">>)), <<>>)
        ELSE IF ~hasattr(srv, "prompt_", Fmt(prompt_name))
        THEN Returned(create_response(request_id, None,
                 create_error(METHOD_NOT_FOUND, <<"Prompt not found: ", Fmt(prompt_name)>>)), <<>>)
        ELSE
        LET method == getattr(srv, "prompt_", Fmt(prompt_name))
            sig == method.params
            given == Get(params, "arguments", EmptyDict)
            arguments == IF Truthy(given) THEN given ELSE EmptyDict
            categories == _extract_prompt_categories(method.doc)
            rendered(messages) ==
                IF categories # <<>>
                THEN [description |-> prompt_description(method),
                      categories |-> categories, messages |-> messages]
                ELSE [description |-> prompt_description(method), messages |-> messages]
            calls == <<Call(method, kwargs_of(sig, arguments), thread_of(method))>>
            ran == invoke(srv, calls[1], out)
        IN  IF unbound(sig, arguments) # <<>>
            THEN failed(<<"Missing required argument '", Head(unbound(sig, arguments)).name,
                          "' for prompt ", Fmt(prompt_name)>>, <<>>)
            ELSE IF ran.kind = "raise"
            THEN IF ran.exc.cls \in PromptCaught
                 THEN failed(ran.exc.text, calls)
                 ELSE Escaped(ran.exc, calls)
            ELSE Returned(create_response(request_id, rendered(messages_of(ran.value)), None),
                          calls)

\* Mutant of handle_prompt_get_async: the test for a missing name is
\* missing, so the lookup runs on whatever the name is.
handle_prompt_get_async_unchecked_name(srv, request_id, params, out) ==
    IF params.t # "obj" THEN Escaped(NotADict, <<>>)
    ELSE
    LET prompt_name == Get(params, "name", None)
        failed(text, calls) ==
            Returned(create_response(request_id, None,
                create_error(INTERNAL_ERROR, <<"Prompt execution error: ">> \o text)), calls)
    IN  IF ~hasattr(srv, "prompt_", Fmt(prompt_name))
        THEN Returned(create_response(request_id, None,
                 create_error(METHOD_NOT_FOUND, <<"Prompt not found: ", Fmt(prompt_name)>>)), <<>>)
        ELSE
        LET method == getattr(srv, "prompt_", Fmt(prompt_name))
            sig == method.params
            given == Get(params, "arguments", EmptyDict)
            arguments == IF Truthy(given) THEN given ELSE EmptyDict
            categories == _extract_prompt_categories(method.doc)
            described == IF categories # <<>>
                         THEN [description |-> prompt_description(method),
                               categories |-> categories]
                         ELSE [description |-> prompt_description(method)]
            rendered(messages) ==
                IF categories # <<>>
                THEN [description |-> prompt_description(method),
                      categories |-> categories, messages |-> messages]
                ELSE [description |-> prompt_description(method), messages |-> messages]
            calls == <<Call(method, kwargs_of(sig, arguments), thread_of(method))>>
            ran == invoke(srv, calls[1], out)
        IN  IF ~Truthy(arguments)
            THEN Returned(create_response(request_id, described, None), <<>>)
            ELSE IF unbound(sig, arguments) # <<>>
            THEN failed(<<"Missing required argument '", Head(unbound(sig, arguments)).name,
                          "' for prompt ", Fmt(prompt_name)>>, <<>>)
            ELSE IF ran.kind = "raise"
            THEN IF ran.exc.cls \in PromptCaught
                 THEN failed(ran.exc.text, calls)
                 ELSE Escaped(ran.exc, calls)
            ELSE Returned(create_response(request_id, rendered(messages_of(ran.value)), None),
                          calls)

\* AsyncMCPServer.handle_prompt_get_async(request_id, params)
handle_prompt_get_async(srv, request_id, params, out) ==
    IF params.t # "obj" THEN Escaped(NotADict, <<>>)
    ELSE
    LET prompt_name == Get(params, "name", None)
        failed(text, calls) ==
            Returned(create_response(request_id, None,
                create_error(INTERNAL_ERROR, <<"Prompt execution error: ">> \o text)), calls)
    IN  IF ~Truthy(prompt_name)
        THEN Returned(create_response(request_id, None,
                 create_error(INVALID_PARAMS, <<"Missing required parameter 'name'">>)), <<>>)
        ELSE IF ~hasattr(srv, "prompt_", Fmt(prompt_name))
        THEN Returned(create_response(request_id, None,
                 create_error(METHOD_NOT_FOUND, <<"Prompt not found: ", Fmt(prompt_name)>>)), <<>>)
        ELSE
        LET method == getattr(srv, "prompt_", Fmt(prompt_name))
            sig == method.params
            given == Get(params, "arguments", EmptyDict)
            arguments == IF Truthy(given) THEN given ELSE EmptyDict
            categories == _extract_prompt_categories(method.doc)
            described == IF categories # <<>>
                         THEN [description |-> prompt_description(method),
                               categories |-> categories]
                         ELSE [description |-> prompt_description(method)]
            rendered(messages) ==
                IF categories # <<>>
                THEN [description |-> prompt_description(method),
                      categories |-> categories, messages |-> messages]
                ELSE [description |-> prompt_description(method), messages |-> messages]
            calls == <<Call(method, kwargs_of(sig, arguments), thread_of(method))>>
            ran == invoke(srv, calls[1], out)
        IN  IF ~Truthy(arguments)
            THEN Returned(create_response(request_id, described, None), <<>>)
            ELSE IF unbound(sig, arguments) # <<>>
            THEN failed(<<"Missing required argument '", Head(unbound(sig, arguments)).name,
                          "' for prompt ", Fmt(prompt_name)>>, <<>>)
            ELSE IF ran.kind = "raise"
            THEN IF ran.exc.cls \in PromptCaught
                 THEN failed(ran.exc.text, calls)
                 ELSE Escaped(ran.exc, calls)
            ELSE Returned(create_response(request_id, rendered(messages_of(ran.value)), None),
                          calls)

----------------------------------------------------------------------------
(* initialize, tools/list and the dispatcher *)

\* MCPServer.get_config / AsyncMCPServer.get_config
get_config_sync(srv) ==
    [protocolVersion |-> "0.1.0",
     serverInfo |-> [name |-> srv, version |-> "0.1.0"],
     capabilities |-> [tools |-> [listChanged |-> TRUE]],
     instructions |-> <<"get_instructions", srv>>]
get_config(srv) ==
    [protocolVersion |-> "2025-03-26",
     serverInfo |-> [name |-> srv, version |-> "0.1.0"],
     capabilities |-> [tools |-> [listChanged |-> TRUE],
                       prompts |-> [listChanged |-> TRUE, get |-> TRUE]],
     instructions |-> <<"get_instructions", srv>>]

\* MCPServer.handle_initialize reads params.get('clientInfo') for its log.
handle_initialize_sync(srv, request_id, params) ==
    IF params.t # "obj" THEN Escaped(NotADict, <<>>)
    ELSE Returned(create_response(request_id, get_config_sync(srv), None), <<>>)

\* AsyncMCPServer.handle_initialize ignores params.
handle_initialize(srv, request_id, params) ==
    Returned(create_response(request_id, get_config(srv), None), <<>>)

handle_tools_list_sync(srv, request_id) ==
    Returned(create_response(request_id, discover_tools_sync(srv), None), <<>>)
handle_tools_list(srv, request_id) ==
    Returned(create_response(request_id, discover_tools(srv), None), <<>>)

\* An input line: text that json.loads rejects, or the value it parses to.
Malformed == [kind |-> "malformed", value |-> None]
Json(value) == [kind |-> "json", value |-> value]

\* What a non-blank line is: a notification when it is a request object
\* whose method is notifications/initialized, a request otherwise.
kind_of(ln) ==
    IF /\ ln.kind = "json" /\ ln.value.t = "obj"
       /\ Get(ln.value, "method", None) = JStr("notifications/initialized")
    THEN "notification" ELSE "request"

method_is(method, name) == method = JStr(name)

\* Mutant of route_method: the final `else` is missing, so a request with an
\* unknown method falls through and is dropped like a notification.
route_method_drops_unknown(srv, request_id, method, params, out) ==
    IF method_is(method, "initialize")
    THEN handle_initialize_sync(srv, request_id, params)
    ELSE IF method_is(method, "tools/list")
    THEN handle_tools_list_sync(srv, request_id)
    ELSE IF method_is(method, "tools/call")
    THEN handle_tools_call(srv, request_id, params, out)
    ELSE Returned(None, <<>>)

\* MCPServer.process_request, "# Process the method": the routing by method
\* name of a request that passed the version check.
route_method(srv, request_id, method, params, out) ==
    IF method_is(method, "initialize")
    THEN handle_initialize_sync(srv, request_id, params)
    ELSE IF method_is(method, "tools/list")
    THEN handle_tools_list_sync(srv, request_id)
    ELSE IF method_is(method, "tools/call")
    THEN handle_tools_call(srv, request_id, params, out)
    ELSE IF method_is(method, "notifications/initialized")
    THEN Returned(None, <<>>)
    ELSE Returned(create_response(request_id, None,
             create_error(METHOD_NOT_FOUND, <<"Method not found: ", Fmt(method)>>)), <<>>)

\* Mutant of process_request: json.loads is called outside any try, so the
\* JSONDecodeError of a malformed line escapes the dispatcher.
process_request_unguarded_loads(srv, input_data, out) ==
    IF input_data.kind = "malformed"
    THEN Escaped(Exc("JSONDecodeError", <<"Expecting value">>), <<>>)
    ELSE
    LET request == input_data.value
    IN  IF request.t # "obj" THEN Escaped(NotADict, <<>>)
        ELSE
        LET jsonrpc == Get(request, "jsonrpc", None)
            request_id == Get(request, "id", None)
            method == Get(request, "method", None)
            params == Get(request, "params", EmptyDict)
        IN  IF jsonrpc # JStr("2.0")
            THEN Returned(create_response(request_id, None,
                     create_error(INVALID_REQUEST,
                                  <<"Invalid Request: Not a JSON-RPC 2.0 request">>)), <<>>)
            ELSE route_method(srv, request_id, method, params, out)

\* MCPServer.process_request(input_data): parse, read the envelope, check
\* the version, route.
process_request(srv, input_data, out) ==
    IF input_data.kind = "malformed"
    THEN Returned(create_response(None, None, create_error(PARSE_ERROR, <<"Parse error">>)), <<>>)
    ELSE
    LET request == input_data.value
    IN  IF request.t # "obj" THEN Escaped(NotADict, <<>>)
        ELSE
        LET jsonrpc == Get(request, "jsonrpc", None)
            request_id == Get(request, "id", None)
            method == Get(request, "method", None)
            params == Get(request, "params", EmptyDict)
        IN  IF jsonrpc # JStr("2.0")
            THEN Returned(create_response(request_id, None,
                     create_error(INVALID_REQUEST,
                                  <<"Invalid Request: Not a JSON-RPC 2.0 request">>)), <<>>)
            ELSE route_method(srv, request_id, method, params, out)

\* Mutant of route_method_async: the notification is acknowledged with an
\* empty result instead of no response.
route_method_async_answers_notification(srv, request_id, method, params, out) ==
    IF method_is(method, "initialize")
    THEN handle_initialize(srv, request_id, params)
    ELSE IF method_is(method, "tools/list")
    THEN handle_tools_list(srv, request_id)
    ELSE IF method_is(method, "tools/call")
    THEN handle_tools_call_async(srv, request_id, params, out)
    ELSE IF method_is(method, "prompts/list")
    THEN Returned(create_response(request_id, discover_prompts(srv), None), <<>>)
    ELSE IF method_is(method, "prompts/get")
    THEN handle_prompt_get_async(srv, request_id, params, out)
    ELSE IF method_is(method, "notifications/initialized")
    THEN Returned(create_response(request_id, None, None), <<>>)
    ELSE Returned(create_response(request_id, None,
             create_error(METHOD_NOT_FOUND, <<"Method not found: ", Fmt(method)>>)), <<>>)

\* AsyncMCPServer.process_request_async, "# Process the method".
route_method_async(srv, request_id, method, params, out) ==
    IF method_is(method, "initialize")
    THEN handle_initialize(srv, request_id, params)
    ELSE IF method_is(method, "tools/list")
    THEN handle_tools_list(srv, request_id)
    ELSE IF method_is(method, "tools/call")
    THEN handle_tools_call_async(srv, request_id, params, out)
    ELSE IF method_is(method, "prompts/list")
    THEN Returned(create_response(request_id, discover_prompts(srv), None), <<>>)
    ELSE IF method_is(method, "prompts/get")
    THEN handle_prompt_get_async(srv, request_id, params, out)
    ELSE IF method_is(method, "notifications/initialized")
    THEN Returned(None, <<>>)
    ELSE Returned(create_response(request_id, None,
             create_error(METHOD_NOT_FOUND, <<"Method not found: ", Fmt(method)>>)), <<>>)

\* Mutant of process_request_async: the version is checked only when the
\* request carries a jsonrpc field.
process_request_async_lenient_version(srv, request_data, out) ==
    IF request_data.kind = "malformed"
    THEN Returned(create_response(None, None, create_error(PARSE_ERROR, <<"Parse error">>)), <<>>)
    ELSE
    LET request == request_data.value
    IN  IF request.t # "obj" THEN Escaped(NotADict, <<>>)
        ELSE
        LET jsonrpc == Get(request, "jsonrpc", None)
            method == Get(request, "method", None)
            params == Get(request, "params", EmptyDict)
            request_id == Get(request, "id", None)
        IN  IF jsonrpc # None /\ jsonrpc # JStr("2.0")
            THEN Returned(create_response(request_id, None,
                     create_error(INVALID_REQUEST,
                                  <<"Invalid Request: Not a JSON-RPC 2.0 request">>)), <<>>)
            ELSE route_method_async(srv, request_id, method, params, out)

\* AsyncMCPServer.process_request_async(request_data)
process_request_async(srv, request_data, out) ==
    IF request_data.kind = "malformed"
    THEN Returned(create_response(None, None, create_error(PARSE_ERROR, <<"Parse error">>)), <<>>)
    ELSE
    LET request == request_data.value
    IN  IF request.t # "obj" THEN Escaped(NotADict, <<>>)
        ELSE
        LET jsonrpc == Get(request, "jsonrpc", None)
            method == Get(request, "method", None)
            params == Get(request, "params", EmptyDict)
            request_id == Get(request, "id", None)
        IN  IF jsonrpc # JStr("2.0")
            THEN Returned(create_response(request_id, None,
                     create_error(INVALID_REQUEST,
                                  <<"Invalid Request: Not a JSON-RPC 2.0 request">>)), <<>>)
            ELSE route_method_async(srv, request_id, method, params, out)

\* The dispatcher of the running instance.
dispatch(srv, input, out) ==
    IF srv = "AsyncMCPServer" THEN process_request_async(srv, input, out)
    ELSE process_request(srv, input, out)

----------------------------------------------------------------------------
(* The input lines the model feeds to the loop *)

Versions == {Absent, JStr("2.0"), JStr("1.0")}
Ids == {Absent, JInt(1), JStr("a")}
MethodNames ==
    {Absent, JStr("initialize"), JStr("tools/list"), JStr("tools/call"),
     JStr("prompts/list"), JStr("prompts/get"), JStr("notifications/initialized"),
     JStr("resources/list")}
Callers == {JStr("tools/call"), JStr("prompts/get")}

AllHandlers ==
    {m \in Range(ExampleMembers("AsyncMCPServer")) \cup Range(ExampleMembers("MCPServer")) :
        m.prefix \in {"tool_", "prompt_"}}
ToolNames == {Absent, JStr(""), JStr("nosuch")} \cup {JStr(m.name) : m \in AllHandlers}

\* The argument keys tried with a name: the parameters some handler of
\* that name declares, and one key no handler declares.
KeysFor(name) ==
    {"extra"} \cup UNION {ParamNames(m.params) : m \in {h \in AllHandlers : JStr(h.name) = name}}
ArgumentValues(key) == IF key = "b" THEN {JInt(5), JInt(0)} ELSE {JInt(10)}
ArgumentsFor(name) ==
    {Absent, None}
    \cup UNION {{JObj(f) : f \in {g \in [K -> {JInt(0), JInt(5), JInt(10)}] :
                                    \A k \in K : g[k] \in ArgumentValues(k)}} :
                K \in SUBSET KeysFor(name)}

ParamsOfCalls ==
    UNION {{DictOf([name |-> n, arguments |-> a]) : a \in ArgumentsFor(n)} : n \in ToolNames}

Request(j, i, m, p) == Json(DictOf([jsonrpc |-> j, id |-> i, method |-> m, params |-> p]))

RequestLines ==
    {Malformed, Json(JList(<<>>)), Json(JInt(42)), Json(None)}
    \cup {Request(j, i, m, p) :
            j \in Versions, i \in Ids, m \in MethodNames, p \in {Absent, None, EmptyDict}}
    \cup {Request(j, i, m, p) :
            j \in {JStr("2.0"), JStr("1.0")}, i \in Ids, m \in Callers, p \in ParamsOfCalls}

NoLine == [kind |-> "none", value |-> None]
NoFile == [readable |-> FALSE, error |-> "none", data |-> NoLine]
NoBookings == [id \in {} |-> None]
NoOutcome == [kind |-> "none", value |-> None, exc |-> None]

----------------------------------------------------------------------------
(* Subclasses: servers that declare handlers of their own.  Discovery reads *)
(* whatever methods the instance has, so the declared handlers are inputs.  *)

\* The annotations tried on the first parameter: every type the translator
\* names, generics of them, types it does not name, no annotation at all and
\* an annotation that cannot be resolved.
Annotations ==
    { None, Ty("NoneType"), Ty("str"), Ty("int"), Ty("float"), Ty("bool"),
      Ty("list"), Ty("dict"),
      Generic("List", <<>>), Generic("List", <<Ty("str")>>),
      Generic("List", <<Generic("List", <<Ty("int")>>)>>),
      Generic("List", <<Ty("Any")>>),
      Generic("Dict", <<Ty("str"), Ty("Any")>>),
      OptionalOf(Ty("int")), Generic("Union", <<Ty("NoneType"), Ty("str")>>),
      OptionalOf(Generic("List", <<Ty("int")>>)),
      OptionalOf(Generic("Dict", <<Ty("str"), Ty("Any")>>)),
      BarNone(Ty("int")), Generic("UnionType", <<Ty("NoneType"), Ty("float")>>),
      Generic("Union", <<Ty("int"), Ty("str")>>),
      Ty("Any"), Ty("tuple"), Generic("Set", <<Ty("int")>>),
      Unresolvable }
LaterAnnotations == {Ty("int"), Unresolvable}

WithOrWithoutDefault(name, annotations) ==
    {Required(name, a) : a \in annotations} \cup {Defaulted(name, a, None) : a \in annotations}

\* Signatures of one, two or three parameters after `self`, or none.  A
\* parameter without a default that follows one with a default is a
\* keyword-only parameter (def tool_echo(self, x=None, *, y)).  A parameter
\* called `self` is one of a method whose receiver has another name
\* (def tool_echo(this, self: str, y: int)).
Signatures ==
    LET xs == WithOrWithoutDefault("x", Annotations)
        ys == WithOrWithoutDefault("y", LaterAnnotations)
        zs == WithOrWithoutDefault("z", {Ty("str")})
        selfs == {<<Required("self", Ty("str")), y>> : y \in ys}
    IN  {<<>>} \cup selfs \cup {<<x>> : x \in xs}
        \cup {<<x, y>> : x \in xs, y \in ys}
        \cup {<<x, y, z>> : x \in xs, y \in ys, z \in zs}

tool_echo(params) ==
    Method("tool_", "echo", params, FALSE, << <<"E","c","h","o",".">> >>)
tool_ping == Method("tool_", "ping", <<>>, FALSE, <<>>)
prompt_echo(params) ==
    Method("prompt_", "echo", params, FALSE, << <<"E","c","h","o",".">> >>)
\* A method whose name only resembles the convention: `toolbox`.
toolbox_method == Method("", "toolbox", <<Required("x", Ty("str"))>>, FALSE, <<>>)

\* Docstrings of prompt handlers, as the lines of getdoc(method).
\* A plural label line.
DocLabelLine ==
    << <<"P","l","a","n",".">>,
       <<"C","a","t","e","g","o","r","i","e","s",":"," ","a","i",","," ","m","l">> >>
\* An indented upper-case singular label, a padded mixed-case tag.
DocUpperLabel ==
    << <<"P","l","a","n",".">>,
       <<" "," ","C","A","T","E","G","O","R","Y",":"," "," ","U","x"," ">> >>
\* Bracketed annotations inside and at the start of a line.
DocBrackets ==
    << <<"P","l","a","n"," ","[","c","a","t","e","g","o","r","y",":"," ","a","i","]"," ","n","o","w",".">>,
       <<"[","C","a","t","e","g","o","r","i","e","s",":"," ","M","L"," ",","," ","a","i","]">> >>
\* No label and no annotation.
DocPlain ==
    << <<"P","l","a","n",".">> >>
\* The label word inside a sentence.
DocLabelInside ==
    << <<"S","e","e"," ","c","a","t","e","g","o","r","i","e","s",":"," ","a","i">> >>
\* Empty tokens and a tag repeated on a second label line.
DocEmptyTokens ==
    << <<"C","a","t","e","g","o","r","i","e","s",":"," ","a","i",",",","," ",",","m","l">>,
       <<"c","a","t","e","g","o","r","y",":"," ","m","l",","," ","u","x">> >>
\* A label line that also holds an annotation.
DocLabelWithBracket ==
    << <<"C","a","t","e","g","o","r","y",":"," ","a","i"," ","[","c","a","t","e","g","o","r","i","e","s",":"," ","u","x","]">> >>
\* Two annotations on one line, the same tag in two cases.
DocTwoBrackets ==
    << <<"[","c","a","t","e","g","o","r","y",":"," ","a","i","]","[","c","a","t","e","g","o","r","y",":"," ","A","i","]">> >>
\* A label followed by blanks only.
DocBareLabel ==
    << <<"C","a","t","e","g","o","r","i","e","s",":"," "," "," ">> >>
\* An annotation that holds a blank only.
DocBlankBracket ==
    << <<"[","c","a","t","e","g","o","r","i","e","s",":"," ","]">> >>
\* An opening bracket on one label line, the closing one on the next.
DocSplitBracket ==
    << <<"C","a","t","e","g","o","r","i","e","s",":"," ","[","c","a","t","e","g","o","r","y",":"," ","x">>,
       <<"C","a","t","e","g","o","r","i","e","s",":"," ","y","]">> >>
Documents ==
    {<<>>, DocLabelLine, DocUpperLabel, DocBrackets, DocPlain, DocLabelInside,
     DocEmptyTokens, DocLabelWithBracket, DocTwoBrackets, DocBareLabel, DocBlankBracket, DocSplitBracket}

prompt_tagged(doc) == Method("prompt_", "tagged", <<>>, FALSE, doc)

\* The members of an instance of each subclass, in getmembers' order: the
\* subclasses that vary the signature, and those that vary the docstring.
Subclasses ==
    UNION {{Subclass(<<get_config_method>> \o prompts \o <<run_method>> \o tools
                     \o <<toolbox_method>>) :
               prompts \in {<<>>, <<prompt_echo(sig)>>},
               tools \in {<<>>, <<tool_echo(sig)>>, <<tool_echo(sig), tool_ping>>}} :
           sig \in Signatures}
    \cup {Subclass(<<get_config_method, prompt_tagged(doc), run_method>> \o tools
                    \o <<toolbox_method>>) :
              doc \in Documents, tools \in {<<>>, <<tool_ping>>}}

----------------------------------------------------------------------------
(* The stdin loop of run / run_async *)

Init ==
    /\ server \in Servers
    /\ declared = Examples
    /\ pc = "await"
    /\ line = NoLine
    /\ response = None
    /\ raised = None
    /\ invoked = <<>>
    /\ outcome = NoOutcome
    /\ nread = 0
    /\ printed = 0
    /\ consumed = <<>>
    /\ written = <<>>
    /\ status = "running"
    /\ file = NoFile
    /\ bookings = NoBookings
    /\ tasks = <<>>
    /\ clock = 0

\* `for line in stdin` / `await reader.readline()` delivers a request line.
\* Mutant of ReadLine: the next line is taken as soon as it arrives, also
\* while the request read before is still being processed.
ReadLine_while_processing(ln) ==
    /\ pc \in {"await", "read"} /\ nread < MaxLines
    /\ line' = ln
    /\ nread' = nread + 1
    /\ consumed' = Append(consumed, kind_of(ln))
    /\ pc' = "read"
    /\ UNCHANGED <<aside, server, declared, response, raised, invoked, outcome, printed, written, status>>

ReadLine(ln) ==
    /\ pc = "await" /\ nread < MaxLines
    /\ line' = ln
    /\ nread' = nread + 1
    /\ consumed' = Append(consumed, kind_of(ln))
    /\ pc' = "read"
    /\ UNCHANGED <<aside, server, declared, response, raised, invoked, outcome, printed, written, status>>

\* A line that is empty after strip() is skipped.
SkipBlank ==
    /\ pc = "await" /\ nread < MaxLines
    /\ nread' = nread + 1
    /\ consumed' = Append(consumed, "blank")
    /\ UNCHANGED <<aside, server, declared, pc, line, response, raised, invoked, outcome, printed,
                   written, status>>

\* Mutant of EndOfInput: the end of input stops the loop at once, also while
\* a request is being processed.
EndOfInput_at_once ==
    /\ pc \in {"await", "read"}
    /\ pc' = "exited"
    /\ status' = "finished"
    /\ UNCHANGED <<aside, server, declared, line, response, raised, invoked, outcome, nread, printed,
                   consumed, written>>

\* End of input: the loop ends.
EndOfInput ==
    /\ pc = "await"
    /\ pc' = "exited"
    /\ status' = "finished"
    /\ UNCHANGED <<aside, server, declared, line, response, raised, invoked, outcome, nread, printed,
                   consumed, written>>

\* The body of the loop for the line read: the request is dispatched and the
\* response, unless None, printed; an exception that escapes the dispatcher
\* ends the process.
Dispatch(out) ==
    /\ pc = "read"
    /\ LET res == dispatch(server, line, out)
       IN  /\ response' = res.ret
           /\ raised' = res.raised
           /\ invoked' = res.calls
           /\ outcome' = IF res.calls # <<>>
                         THEN invoke(server, res.calls[1], out) ELSE NoOutcome
           /\ IF res.raised # None
              THEN /\ status' = "crashed"
                   /\ pc' = "exited"
                   /\ printed' = printed
                   /\ written' = written
              ELSE /\ status' = status
                   /\ pc' = "done"
                   /\ printed' = IF res.ret # None THEN printed + 1 ELSE printed
                   /\ written' = IF res.ret # None THEN Append(written, nread) ELSE written
    /\ UNCHANGED <<aside, server, declared, line, nread, consumed>>

\* The loop goes back for the next line; the locals of the iteration die.
NextIteration ==
    /\ pc = "done"
    /\ pc' = "await"
    /\ line' = NoLine
    /\ response' = None
    /\ raised' = None
    /\ invoked' = <<>>
    /\ outcome' = NoOutcome
    /\ UNCHANGED <<aside, server, declared, nread, printed, consumed, written, status>>

Next ==
    \/ \E ln \in RequestLines : ReadLine(ln)
    \/ SkipBlank
    \/ EndOfInput
    \/ \E out \in Outcomes : Dispatch(out)
    \/ NextIteration

Spec == Init /\ [][Next]_vars

----------------------------------------------------------------------------
(* Discovery on a subclass: the same loop, started on an instance of a     *)
(* subclass and fed the two listing requests.                               *)

ListingLines ==
    {Request(JStr("2.0"), JInt(1), JStr(m), Absent) : m \in {"tools/list", "prompts/list"}}

InitSubclass ==
    /\ server \in Servers
    /\ declared \in Subclasses
    /\ pc = "await"
    /\ line = NoLine
    /\ response = None
    /\ raised = None
    /\ invoked = <<>>
    /\ outcome = NoOutcome
    /\ nread = 0
    /\ printed = 0
    /\ consumed = <<>>
    /\ written = <<>>
    /\ status = "running"
    /\ file = NoFile
    /\ bookings = NoBookings
    /\ tasks = <<>>
    /\ clock = 0

NextListing ==
    \/ \E ln \in ListingLines : ReadLine(ln)
    \/ EndOfInput
    \/ Dispatch(NoOutcome)
    \/ NextIteration

Discovery == InitSubclass /\ [][NextListing]_vars

----------------------------------------------------------------------------
(* Calls by name on a subclass: the same loop, started on an instance of a *)
(* subclass and fed listings and calls of listed and unlisted names.        *)

\* Handlers whose method name is the bare prefix: def tool_(self) and
\* def prompt_(self).
tool_unnamed == Method("tool_", "", <<>>, FALSE, <<>>)
prompt_unnamed == Method("prompt_", "", <<>>, FALSE, <<>>)

NamedServers ==
    {Subclass(<<get_config_method>> \o prompts \o <<run_method>> \o tools
              \o <<toolbox_method>>) :
        prompts \in {<<>>, <<prompt_echo(<<Required("x", Ty("int"))>>)>>,
                     <<prompt_unnamed, prompt_echo(<<Required("x", Ty("int"))>>)>>},
        tools \in {<<tool_echo(<<Required("x", Ty("int"))>>), tool_ping>>,
                   <<tool_unnamed, tool_echo(<<Defaulted("x", Ty("int"), JInt(1))>>)>>}}

NamedLines ==
    ListingLines
    \cup {Request(JStr("2.0"), JInt(1), m, DictOf([name |-> n, arguments |-> a])) :
            m \in Callers,
            n \in {JStr(""), JStr("echo"), JStr("ping"), JStr("box"), JStr("nosuch")},
            a \in {Absent, JObj([k \in {"x"} |-> JInt(10)])}}

InitNamed ==
    /\ server \in Servers
    /\ declared \in NamedServers
    /\ pc = "await"
    /\ line = NoLine
    /\ response = None
    /\ raised = None
    /\ invoked = <<>>
    /\ outcome = NoOutcome
    /\ nread = 0
    /\ printed = 0
    /\ consumed = <<>>
    /\ written = <<>>
    /\ status = "running"
    /\ file = NoFile
    /\ bookings = NoBookings
    /\ tasks = <<>>
    /\ clock = 0

NextNamed ==
    \/ \E ln \in NamedLines : ReadLine(ln)
    \/ EndOfInput
    \/ \E out \in Outcomes : Dispatch(out)
    \/ NextIteration

CallsByListedName == InitNamed /\ [][NextNamed]_vars

----------------------------------------------------------------------------
(* File mode: run / run_async with a file name as argument.  The whole     *)
(* file is one request; the process ends after it.                          *)

\* What open(args[0], 'r', encoding='utf-8') and f.read() find.
Readable(data) == [readable |-> TRUE, error |-> "none", data |-> data]
Unreadable(cls) == [readable |-> FALSE, error |-> cls, data |-> NoLine]

\* The exceptions `except (OSError, IOError)` catches.
OSErrors == {"FileNotFoundError", "IsADirectoryError", "PermissionError"}

Files ==
    {Unreadable(cls) : cls \in OSErrors \cup {"UnicodeDecodeError"}}
    \cup {Readable(ln) : ln \in RequestLines}

InitFile ==
    /\ server \in Servers
    /\ declared = Examples
    /\ pc = "open"
    /\ line = NoLine
    /\ response = None
    /\ raised = None
    /\ invoked = <<>>
    /\ outcome = NoOutcome
    /\ nread = 0
    /\ printed = 0
    /\ consumed = <<>>
    /\ written = <<>>
    /\ status = "running"
    /\ file \in Files
    /\ bookings = NoBookings
    /\ tasks = <<>>
    /\ clock = 0

\* The file is opened and read: its text is the request.
OpenFile ==
    /\ pc = "open" /\ file.readable
    /\ line' = file.data
    /\ nread' = 1
    /\ consumed' = Append(consumed, kind_of(file.data))
    /\ pc' = "read"
    /\ UNCHANGED <<server, declared, response, raised, invoked, outcome, printed, written,
                   status, aside>>

\* Mutant of OpenFails: the error is logged and the process ends normally.
OpenFails_exit_zero ==
    /\ pc = "open" /\ ~file.readable
    /\ pc' = "exited"
    /\ status' = "finished"
    /\ UNCHANGED <<server, declared, line, response, raised, invoked, outcome, nread, printed,
                   consumed, written, aside>>

\* open or read raises: an OSError is logged and followed by exit(1), any
\* other exception (a file that is no UTF-8 text) ends the process with a
\* traceback.
OpenFails ==
    /\ pc = "open" /\ ~file.readable
    /\ pc' = "exited"
    /\ status' = IF file.error \in OSErrors THEN "failed" ELSE "crashed"
    /\ UNCHANGED <<server, declared, line, response, raised, invoked, outcome, nread, printed,
                   consumed, written, aside>>

\* After the response, if any, is printed, run returns.
FileDone ==
    /\ pc = "done" /\ file # NoFile
    /\ pc' = "exited"
    /\ status' = "finished"
    /\ UNCHANGED <<server, declared, line, response, raised, invoked, outcome, nread, printed,
                   consumed, written, aside>>

\* The exit status of the process: exit(1) and an uncaught exception give 1.
ExitStatus == IF status = "finished" THEN 0 ELSE 1

NextFile ==
    \/ OpenFile
    \/ OpenFails
    \/ \E out \in Outcomes : Dispatch(out)
    \/ FileDone

FileMode == InitFile /\ [][NextFile]_vars

----------------------------------------------------------------------------
(* AsyncMovieMCPServer: the handlers of one instance, each call a coroutine *)
(* that runs from one await to the next; calls started while another is     *)
(* suspended interleave with it.  Strings are sequences of characters here. *)

\* Bounds of the movie model: the handler calls started on the instance and
\* the seconds the wall clock advances.
MaxCalls == 2
MaxClock == 2

\* Prices are in cents (12.99 is 1299).
Movie(id, title, showTimes, price) ==
    [id |-> id, title |-> title, showTimes |-> showTimes, price |-> price]

movies_data ==
    << Movie(1, <<"A","v","e","n","g","e","r","s",":"," ","E","n","d","g","a","m","e">>,
             <<<<"1","0",":","0","0">>, <<"1","3",":","3","0">>, <<"1","7",":","0","0">>, <<"2","0",":","3","0">>>>, 1299),
       Movie(2, <<"T","h","e"," ","M","a","t","r","i","x"," ","R","e","s","u","r","r","e","c","t","i","o","n","s">>,
             <<<<"1","1",":","0","0">>, <<"1","4",":","0","0">>, <<"1","8",":","3","0">>, <<"2","1",":","0","0">>>>, 1199),
       Movie(3, <<"D","u","n","e">>,
             <<<<"1","0",":","3","0">>, <<"1","3",":","0","0">>, <<"1","6",":","3","0">>, <<"2","0",":","0","0">>>>, 1299),
       Movie(4, <<"N","o"," ","T","i","m","e"," ","t","o"," ","D","i","e">>,
             <<<<"1","1",":","3","0">>, <<"1","5",":","0","0">>, <<"1","8",":","0","0">>, <<"2","1",":","3","0">>>>, 1399) >>

\* `not v` for the values the movie handlers are called with.
Falsy(v) ==
    CASE v.t = "null" -> TRUE
      [] v.t = "str"  -> v.s = <<>>
      [] v.t = "list" -> v.items = <<>>
      [] v.t \in {"int", "bool"} -> IntOf(v) = 0
      [] OTHER        -> FALSE

\* `"@" in v`: substring of a str, element of a list; TypeError otherwise.
Iterable(v) == v.t \in {"str", "list"}
HasAt(v) ==
    IF v.t = "str" THEN \E i \in DOMAIN v.s : v.s[i] = "@"
    ELSE \E i \in DOMAIN v.items : v.items[i] = JStr(<<"@">>)

\* next((m for m in self.movies_data if m["id"] == movie_id), None)
find_movie(movie_id) ==
    LET hits == {i \in DOMAIN movies_data : movies_data[i].id = IntOf(movie_id)}
    IN  IF hits = {} THEN None
        ELSE movies_data[CHOOSE i \in hits : \A j \in hits : i <= j]

ErrorDict(text) == [error |-> text]

\* A handler call: the coroutine, its arguments, where it is suspended, its
\* locals and, once it has returned, its return value.
Coroutine(op, args) ==
    [op |-> op, args |-> args, pc |-> "called", locals |-> [k \in {} |-> None], ret |-> None]

Return(co, value) == [co EXCEPT !.pc = "returned", !.ret = value]

\* tool_book_ticket_async up to its first await: the validation, the lookup
\* of the movie and of the show time.  An exception raised on the way is
\* turned into an error dict by `except Exception`.  called_at is no local
\* of the code: it is the second the call was made in, kept to tell how
\* long the sleeps have lasted.
\* Mutant of book_ticket_checks: the show time is not looked up.
book_ticket_checks_any_show_time(co, now) ==
    LET a == co.args
        movie == find_movie(a.movie_id)
    IN  IF \/ a.movie_id.t = "null" \/ ~IsInt(a.movie_id) \/ IntOf(a.movie_id) <= 0
           \/ a.show_time.t = "null" \/ a.show_time.t # "str" \/ strip(a.show_time.s) = <<>>
           \/ a.num_tickets.t = "null" \/ ~IsInt(a.num_tickets) \/ IntOf(a.num_tickets) <= 0
           \/ Falsy(a.customer_email)
        THEN Return(co, ErrorDict(<<"Invalid booking parameters">>))
        ELSE IF ~Iterable(a.customer_email)
        THEN Return(co, ErrorDict(<<"Booking failed: ", "argument is not iterable">>))
        ELSE IF ~HasAt(a.customer_email)
        THEN Return(co, ErrorDict(<<"Invalid booking parameters">>))
        ELSE IF movie = None
        THEN Return(co, ErrorDict(<<"Movie with ID ", a.movie_id, " not found">>))
        ELSE [co EXCEPT !.pc = "seats", !.locals = [movie |-> movie, called_at |-> now]]

book_ticket_checks(co, now) ==
    LET a == co.args
        movie == find_movie(a.movie_id)
    IN  IF \/ a.movie_id.t = "null" \/ ~IsInt(a.movie_id) \/ IntOf(a.movie_id) <= 0
           \/ a.show_time.t = "null" \/ a.show_time.t # "str" \/ strip(a.show_time.s) = <<>>
           \/ a.num_tickets.t = "null" \/ ~IsInt(a.num_tickets) \/ IntOf(a.num_tickets) <= 0
           \/ Falsy(a.customer_email)
        THEN Return(co, ErrorDict(<<"Invalid booking parameters">>))
        ELSE IF ~Iterable(a.customer_email)
        THEN Return(co, ErrorDict(<<"Booking failed: ", "argument is not iterable">>))
        ELSE IF ~HasAt(a.customer_email)
        THEN Return(co, ErrorDict(<<"Invalid booking parameters">>))
        ELSE IF movie = None
        THEN Return(co, ErrorDict(<<"Movie with ID ", a.movie_id, " not found">>))
        ELSE IF ~\E i \in DOMAIN movie.showTimes : movie.showTimes[i] = a.show_time.s
        THEN Return(co, ErrorDict(<<"Show time ", a.show_time.s, " not available for ",
                                      movie.title>>))
        ELSE [co EXCEPT !.pc = "seats", !.locals = [movie |-> movie, called_at |-> now]]

\* f"BK{int(time())}{movie_id}": the pieces of the text.
booking_id_of(co, now) == <<"BK", now, co.args.movie_id>>

\* The booking_details dict built after the payment.
booking_details_of(co, now) ==
    [booking_id |-> booking_id_of(co, now),
     movie_id |-> co.args.movie_id,
     movie_title |-> co.locals.movie.title,
     show_time |-> co.args.show_time,
     num_tickets |-> co.args.num_tickets,
     total_price |-> co.locals.total_price,
     customer_email |-> co.args.customer_email,
     booking_time |-> now,
     status |-> "confirmed",
     async |-> TRUE]

\* self.bookings[booking_id] = booking_details
store(table, booking_id, details) ==
    [id \in DOMAIN table \cup {booking_id} |->
        IF id = booking_id THEN details ELSE table[id]]

\* tool_get_booking_async after its sleep: a copy of the stored dict with
\* retrieved_at added; an unhashable id makes `in` raise.
get_booking(table, booking_id, now) ==
    IF booking_id.t = "list"
    THEN ErrorDict(<<"Failed to retrieve booking: ", "unhashable type">>)
    ELSE IF booking_id.t = "str" /\ booking_id.s \in DOMAIN table
    THEN [k \in DOMAIN table[booking_id.s] \cup {"retrieved_at"} |->
             IF k = "retrieved_at" THEN now ELSE table[booking_id.s][k]]
    ELSE ErrorDict(<<"Booking ", booking_id, " not found">>)

\* tool_search_movies_async up to its gather: the test of the query and its
\* normalisation; a query without strip() raises, which `except Exception`
\* turns into an error dict.
search_checks(co) ==
    LET query == co.args.query
    IN  IF Falsy(query)
        THEN Return(co, ErrorDict(<<"Search query cannot be empty">>))
        ELSE IF query.t # "str"
        THEN Return(co, ErrorDict(<<"Search failed: ", "object has no attribute 'strip'">>))
        ELSE IF strip(query.s) = <<>>
        THEN Return(co, ErrorDict(<<"Search query cannot be empty">>))
        ELSE [co EXCEPT !.pc = "gather",
                        !.locals = [query |-> strip(lower_str(query.s)),
                                    results |-> [b \in {} |-> <<>>],
                                    order |-> <<>>]]

\* search_tasks, in the order they are handed to gather.
search_tasks == <<"_search_local_movies", "_search_external_api", "_search_recommendations">>

\* `query in title`: substring.
Contains(s, pat) ==
    \E i \in 1..(Len(s) - Len(pat) + 1) : SubSeq(s, i, i + Len(pat) - 1) = pat

\* str.title(): a letter that follows no letter is upper case, the others lower.
IsLetter(c) == \E i \in DOMAIN Upper : c = Upper[i] \/ c = LowerOf[i]
upper(c) == IF \E i \in DOMAIN LowerOf : LowerOf[i] = c
            THEN Upper[CHOOSE i \in DOMAIN LowerOf : LowerOf[i] = c]
            ELSE c
title(s) == [i \in DOMAIN s |-> IF i = 1 \/ ~IsLetter(s[i - 1]) THEN upper(s[i]) ELSE lower(s[i])]

External(id, text, source) == [id |-> id, title |-> text, source |-> source]

_search_local_movies(query) ==
    SelectSeq(movies_data, LAMBDA movie : Contains(lower_str(movie.title), query))

_search_external_api(query) ==
    << External("ext_1", <<"E","x","t","e","r","n","a","l"," ","M","o","v","i","e",":"," ">> \o title(query), "external_api"),
       External("ext_2", <<"S","i","m","i","l","a","r"," ","t","o"," ">> \o title(query), "external_api") >>

_search_recommendations(query) ==
    << External("rec_1", <<"R","e","c","o","m","m","e","n","d","e","d",":"," ">> \o title(query) \o <<" ","2">>, "recommendations"),
       External("rec_2", <<"Y","o","u"," ","m","i","g","h","t"," ","l","i","k","e",":"," ">> \o title(query) \o <<" ","R","e","d","u","x">>, "recommendations") >>

\* What a search branch returns when its sleep is over.
branch_result(branch, query) ==
    CASE branch = "_search_local_movies" -> _search_local_movies(query)
      [] branch = "_search_external_api" -> _search_external_api(query)
      [] branch = "_search_recommendations" -> _search_recommendations(query)

\* await gather(*search_tasks): the results in the order of the awaitables,
\* whatever the order they completed in.
\* Mutant of gather: the results come in the order of completion.
gather_as_completed(results, order) == [i \in DOMAIN order |-> results[order[i]]]

gather(results, order) == [i \in DOMAIN search_tasks |-> results[search_tasks[i]]]

\* The dict tool_search_movies_async returns after the gather.
search_result(co, now) ==
    LET gathered == gather(co.locals.results, co.locals.order)
        local_results == gathered[1]
        external_results == gathered[2]
        recommendations == gathered[3]
    IN  [query |-> co.locals.query,
         local_matches |-> local_results,
         external_matches |-> external_results,
         recommendations |-> recommendations,
         total_results |-> Len(local_results \o external_results),
         search_time |-> now,
         async |-> TRUE]

\* The calls made on the instance: keyword arguments of each handler.
Booking(movie_id, show_time, num_tickets, customer_email) ==
    [movie_id |-> movie_id, show_time |-> show_time, num_tickets |-> num_tickets,
     customer_email |-> customer_email]

BookingCalls ==
    { Booking(JInt(1), JStr(<<"1","0",":","0","0">>), JInt(2), JStr(<<"a","@","x">>)),
      Booking(JInt(1), JStr(<<"1","3",":","3","0">>), JInt(1), JStr(<<"b","@","x">>)),
      Booking(JInt(2), JStr(<<"1","1",":","0","0">>), JInt(1), JStr(<<"a","@","x">>)),
      Booking(JBool(TRUE), JStr(<<"1","7",":","0","0">>), JBool(TRUE), JList(<<JStr(<<"@">>)>>)),
      Booking(JInt(0), JStr(<<"1","0",":","0","0">>), JInt(1), JStr(<<"a","@","x">>)),
      Booking(JInt(9), JStr(<<"1","0",":","0","0">>), JInt(1), JStr(<<"a","@","x">>)),
      Booking(JStr(<<"1">>), JStr(<<"1","0",":","0","0">>), JInt(1), JStr(<<"a","@","x">>)),
      Booking(None, JStr(<<"1","0",":","0","0">>), JInt(1), JStr(<<"a","@","x">>)),
      Booking(JInt(1), JStr(<<"1","1",":","0","0">>), JInt(1), JStr(<<"a","@","x">>)),
      Booking(JInt(1), JStr(<<" ">>), JInt(1), JStr(<<"a","@","x">>)),
      Booking(JInt(1), JInt(1000), JInt(1), JStr(<<"a","@","x">>)),
      Booking(JInt(1), JStr(<<"1","0",":","0","0">>), JInt(0), JStr(<<"a","@","x">>)),
      Booking(JInt(1), JStr(<<"1","0",":","0","0">>), JFloat(2), JStr(<<"a","@","x">>)),
      Booking(JInt(1), JStr(<<"1","0",":","0","0">>), JInt(2), JStr(<<"n","o","b","o","d","y">>)),
      Booking(JInt(1), JStr(<<"1","0",":","0","0">>), JInt(2), JInt(5)),
      Booking(JInt(1), JStr(<<"1","0",":","0","0">>), JInt(2), None) }

Queries ==
    { JStr(<<"M","a","t","r","i","x">>), JStr(<<" ","d","u","n","e"," ">>), JStr(<<"e">>), JStr(<<" ">>), JStr(<<>>),
      None, JInt(5) }

\* The ids get_booking_async is asked for: those of the bookings made so
\* far, one that was never issued, and one that is no string.
BookingIds ==
    {JStr(id) : id \in DOMAIN bookings}
    \cup {JStr(<<"BK", 0, JInt(9)>>), JList(<<JStr(<<"BK", 0, JInt(1)>>)>>)}

\* The variables of the stdin loop, which the handler coroutines leave alone.
stdin_loop == <<server, declared, pc, line, response, raised, invoked, outcome, nread,
                printed, consumed, written, status, file>>

InitMovies ==
    /\ server = "AsyncMCPServer"
    /\ declared = Examples
    /\ pc = "await"
    /\ line = NoLine
    /\ response = None
    /\ raised = None
    /\ invoked = <<>>
    /\ outcome = NoOutcome
    /\ nread = 0
    /\ printed = 0
    /\ consumed = <<>>
    /\ written = <<>>
    /\ status = "running"
    /\ file = NoFile
    /\ bookings = NoBookings
    /\ tasks = <<>>
    /\ clock = 0

\* book_ticket_async is called and runs to its first await (or returns).
tool_book_ticket_async(args) ==
    /\ Len(tasks) < MaxCalls
    /\ tasks' = Append(tasks, book_ticket_checks(Coroutine("book_ticket_async", args), clock))
    /\ UNCHANGED <<stdin_loop, bookings, clock>>

\* After sleep(0.4): the price is computed, the payment begins (sleep(0.6)).
seats_checked(i) ==
    /\ tasks[i].op = "book_ticket_async" /\ tasks[i].pc = "seats"
    /\ tasks' = [tasks EXCEPT ![i].pc = "payment",
                              ![i].locals = [movie |-> @.movie, called_at |-> @.called_at,
                                             total_price |-> IntOf(tasks[i].args.num_tickets)
                                                             * @.movie.price]]
    /\ UNCHANGED <<stdin_loop, bookings, clock>>

\* After sleep(0.6): the id and the details are built, the save begins
\* (sleep(0.2)).  The two sleeps so far lasted a second at least.
payment_processed(i) ==
    /\ tasks[i].op = "book_ticket_async" /\ tasks[i].pc = "payment"
    /\ clock >= tasks[i].locals.called_at + 1
    /\ tasks' = [tasks EXCEPT ![i].pc = "save",
                              ![i].locals = [movie |-> @.movie, called_at |-> @.called_at,
                                             total_price |-> @.total_price,
                                             booking_details |->
                                                 booking_details_of(tasks[i], clock)]]
    /\ UNCHANGED <<stdin_loop, bookings, clock>>

\* After sleep(0.2): the booking is stored, the mail is sent (sleep(0.3)).
booking_saved(i) ==
    /\ tasks[i].op = "book_ticket_async" /\ tasks[i].pc = "save"
    /\ bookings' = store(bookings, tasks[i].locals.booking_details.booking_id,
                         tasks[i].locals.booking_details)
    /\ tasks' = [tasks EXCEPT ![i].pc = "email"]
    /\ UNCHANGED <<stdin_loop, clock>>

\* After sleep(0.3): book_ticket_async returns the details.
email_sent(i) ==
    /\ tasks[i].op = "book_ticket_async" /\ tasks[i].pc = "email"
    /\ tasks' = [tasks EXCEPT ![i] = Return(@, @.locals.booking_details)]
    /\ UNCHANGED <<stdin_loop, bookings, clock>>

\* get_booking_async is called and sleeps (sleep(0.2)).
tool_get_booking_async(booking_id) ==
    /\ Len(tasks) < MaxCalls
    /\ tasks' = Append(tasks, [Coroutine("get_booking_async", [booking_id |-> booking_id])
                                  EXCEPT !.pc = "lookup"])
    /\ UNCHANGED <<stdin_loop, bookings, clock>>

\* After the sleep: the lookup, and the return.
booking_looked_up(i) ==
    /\ tasks[i].op = "get_booking_async" /\ tasks[i].pc = "lookup"
    /\ tasks' = [tasks EXCEPT ![i] = Return(@, get_booking(bookings, @.args.booking_id, clock))]
    /\ UNCHANGED <<stdin_loop, bookings, clock>>

\* search_movies_async is called and runs to its gather (or returns).
tool_search_movies_async(query) ==
    /\ Len(tasks) < MaxCalls
    /\ tasks' = Append(tasks, search_checks(Coroutine("search_movies_async",
                                                      [query |-> query])))
    /\ UNCHANGED <<stdin_loop, bookings, clock>>

\* One of the three branches of a search finishes its sleep and returns.
branch_completes(i, branch) ==
    /\ tasks[i].op = "search_movies_async" /\ tasks[i].pc = "gather"
    /\ branch \notin DOMAIN tasks[i].locals.results
    /\ LET loc == tasks[i].locals
           results == [b \in DOMAIN loc.results \cup {branch} |->
                          IF b = branch THEN branch_result(branch, loc.query)
                          ELSE loc.results[b]]
       IN  tasks' = [tasks EXCEPT ![i].locals = [query |-> loc.query, results |-> results,
                                                 order |-> Append(loc.order, branch)]]
    /\ UNCHANGED <<stdin_loop, bookings, clock>>

\* gather returns once every branch has: search_movies_async builds its
\* result and returns.
gather_returns(i) ==
    /\ tasks[i].op = "search_movies_async" /\ tasks[i].pc = "gather"
    /\ DOMAIN tasks[i].locals.results = Range(search_tasks)
    /\ tasks' = [tasks EXCEPT ![i] = Return(@, search_result(@, clock))]
    /\ UNCHANGED <<stdin_loop, bookings, clock>>

\* The wall clock enters its next second.
Tick ==
    /\ clock < MaxClock
    /\ clock' = clock + 1
    /\ UNCHANGED <<stdin_loop, bookings, tasks>>

\* Bookings and retrievals on one instance.
NextMovies ==
    \/ \E args \in BookingCalls : tool_book_ticket_async(args)
    \/ \E booking_id \in BookingIds : tool_get_booking_async(booking_id)
    \/ \E i \in DOMAIN tasks : seats_checked(i)
    \/ \E i \in DOMAIN tasks : payment_processed(i)
    \/ \E i \in DOMAIN tasks : booking_saved(i)
    \/ \E i \in DOMAIN tasks : email_sent(i)
    \/ \E i \in DOMAIN tasks : booking_looked_up(i)
    \/ Tick

Movies == InitMovies /\ [][NextMovies]_vars

\* Searches on one instance.
NextSearch ==
    \/ \E query \in Queries : tool_search_movies_async(query)
    \/ \E i \in DOMAIN tasks, branch \in Range(search_tasks) : branch_completes(i, branch)
    \/ \E i \in DOMAIN tasks : gather_returns(i)

Search == InitMovies /\ [][NextSearch]_vars

----------------------------------------------------------------------------
(* The synchronous movie server: the loop of MCPServer on an instance of   *)
(* MovieMCPServer, fed tools/call requests of book_ticket.                  *)

\* getmembers() on a MovieMCPServer.
MovieMembers ==
    <<get_config_method, run_method, tool_book_ticket, tool_get_movies,
      tool_get_showtimes, tool_search_movies>>

MovieIds ==
    {Absent, None, JInt(1), JInt(99), JInt(0), JInt(-1), JBool(TRUE), JBool(FALSE),
     JFloat(2), JStr("1")}
ShowTimes ==
    {Absent, None, JStr("20:30"), JStr(" 20:30 "), JStr(""), JStr(" "), JInt(5)}
TicketCounts ==
    {Absent, None, JInt(2), JInt(0), JInt(-3), JBool(TRUE), JBool(FALSE), JFloat(2), JStr("2")}

TicketLines ==
    {Request(JStr("2.0"), JInt(1), JStr("tools/call"),
             DictOf([name |-> JStr("book_ticket"), arguments |-> a])) :
        a \in {Absent, None}
               \cup {DictOf([movie_id |-> m, show_time |-> s, num_tickets |-> n, extra |-> x]) :
                        m \in MovieIds, s \in ShowTimes, n \in TicketCounts,
                        x \in {Absent, JInt(10)}}}

InitTickets ==
    /\ server = "MCPServer"
    /\ declared = Subclass(MovieMembers)
    /\ pc = "await"
    /\ line = NoLine
    /\ response = None
    /\ raised = None
    /\ invoked = <<>>
    /\ outcome = NoOutcome
    /\ nread = 0
    /\ printed = 0
    /\ consumed = <<>>
    /\ written = <<>>
    /\ status = "running"
    /\ file = NoFile
    /\ bookings = NoBookings
    /\ tasks = <<>>
    /\ clock = 0

NextTickets ==
    \/ \E ln \in TicketLines : ReadLine(ln)
    \/ EndOfInput
    \/ \E out \in Outcomes : Dispatch(out)
    \/ NextIteration
    \/ Tick

Tickets == InitTickets /\ [][NextTickets]_vars

----------------------------------------------------------------------------
(* Vocabulary of the properties *)

\* The loop has dispatched `line`: the dispatcher returned or raised.
Dispatched == pc = "done" \/ status = "crashed"

IsRequestObject == line.kind = "json" /\ line.value.t = "obj"
Field(key) == Get(line.value, key, None)
HasField(key) == key \in DOMAIN line.value.f
VersionValid == IsRequestObject /\ Field("jsonrpc") = JStr("2.0")
MethodIs(name) == IsRequestObject /\ Field("method") = JStr(name)

\* The request carries a params dict; ParamsField reads a key of it.
HasParamsDict == IsRequestObject /\ HasField("params") /\ Field("params").t = "obj"
ParamsField(key) == Get(Field("params"), key, None)

\* The dispatcher returned an envelope of that shape.
IsEnvelope == raised = None /\ response # None
IsError == IsEnvelope /\ "error" \in DOMAIN response /\ "result" \notin DOMAIN response
IsResult == IsEnvelope /\ "result" \in DOMAIN response /\ "error" \notin DOMAIN response
IsErrorCode(code) == IsError /\ response.error.code = code

\* text occurs among the pieces of the error message.
MessageNames(text) == IsError /\ \E i \in DOMAIN response.error.message :
                                    response.error.message[i] = text

----------------------------------------------------------------------------
(* C1..C10: the dispatcher's responses *)

\* C1: every input other than a notifications/initialized request is
\* answered with exactly one envelope that holds exactly one of `result` and
\* `error` and the request's id (null when the input could not be parsed).
C1_OneEnvelopePerInput ==
    (Dispatched /\ ~MethodIs("notifications/initialized")) =>
        /\ IsEnvelope
        /\ ("result" \in DOMAIN response) # ("error" \in DOMAIN response)
        /\ response.id = (IF IsRequestObject THEN Field("id") ELSE None)

\* C2: input that is not well-formed JSON is answered with error -32700
\* "Parse error" and id null, and no handler is invoked.
C2_ParseError ==
    (Dispatched /\ line.kind = "malformed") =>
        /\ IsErrorCode(PARSE_ERROR)
        /\ response.error.message = <<"Parse error">>
        /\ response.id = None
        /\ invoked = <<>>

C2_Witness ==
    pc = "done" /\ line.kind = "malformed" /\ IsErrorCode(PARSE_ERROR) /\ printed = 1

C4_NotificationNeverAnswered ==
    [][(pc = "read" /\ MethodIs("notifications/initialized")) =>
          (response' = None /\ raised' = None /\ printed' = printed)]_vars

\* C4 (amended): a request object with jsonrpc "2.0" whose method is
\* notifications/initialized gets no envelope, and the loop prints no
\* output line for it.
C4_ValidNotificationNeverAnswered ==
    [][(pc = "read" /\ VersionValid /\ MethodIs("notifications/initialized")) =>
          (response' = None /\ raised' = None /\ printed' = printed /\ pc' = "done")]_vars

\* A notification dispatched after an answered request: still one line.
C4_Witness ==
    /\ pc = "done" /\ VersionValid /\ MethodIs("notifications/initialized")
    /\ response = None /\ nread = 2 /\ printed = 1

KnownMethods ==
    {JStr("initialize"), JStr("tools/list"), JStr("tools/call"), JStr("prompts/list"),
     JStr("prompts/get"), JStr("notifications/initialized")}

\* C5: a version-valid request whose method is none of the six known ones
\* (an absent method included) is answered with error -32601 and the
\* request's id, and no handler is invoked.
C5_UnknownMethod ==
    (Dispatched /\ VersionValid /\ Field("method") \notin KnownMethods) =>
        /\ IsErrorCode(METHOD_NOT_FOUND)
        /\ response.id = Field("id")
        /\ invoked = <<>>

C5_Witness ==
    /\ pc = "done" /\ VersionValid /\ ~HasField("method") /\ Field("id") = JStr("a")
    /\ IsErrorCode(METHOD_NOT_FOUND) /\ response.id = JStr("a")

\* C6: a tools/call request without params.name is answered with error
\* -32602 by the synchronous and by the asynchronous server, and no tool
\* handler is invoked.
C6_MissingNameIsInvalidParams ==
    (/\ Dispatched /\ VersionValid /\ MethodIs("tools/call")
     /\ (~HasField("params") \/ (HasParamsDict /\ "name" \notin DOMAIN Field("params").f))) =>
        /\ IsErrorCode(INVALID_PARAMS)
        /\ invoked = <<>>

\* The tool the request names is a method of the running instance.
NamesRegistered(prefix) ==
    /\ HasParamsDict /\ ParamsField("name").t = "str"
    /\ \E m \in Range(Members(server)) :
          m.prefix = prefix /\ m.name = ParamsField("name").s

\* C7: a tools/call naming a tool that is not registered on the server is
\* answered with error -32601; nothing is raised, no handler is invoked and
\* the server keeps running.
C7_UnknownTool ==
    (/\ Dispatched /\ VersionValid /\ MethodIs("tools/call")
     /\ HasParamsDict /\ Truthy(ParamsField("name")) /\ ~NamesRegistered("tool_")) =>
        /\ IsErrorCode(METHOD_NOT_FOUND)
        /\ response.id = Field("id")
        /\ invoked = <<>>
        /\ status = "running"

\* A prompt's name is no tool name.
C7_Witness ==
    /\ pc = "done" /\ VersionValid /\ MethodIs("tools/call")
    /\ HasParamsDict /\ ParamsField("name") = JStr("brainstorm")
    /\ ParamsField("arguments").t = "obj"
    /\ IsErrorCode(METHOD_NOT_FOUND) /\ invoked = <<>>

\* The request reaches the binding of arguments: a tools/call of a
\* registered tool whose arguments are absent or a dict, or a prompts/get of
\* a registered prompt with a non-empty arguments dict.
BindsTool ==
    /\ VersionValid /\ MethodIs("tools/call") /\ NamesRegistered("tool_")
    /\ ParamsField("arguments").t \in {"null", "obj"}
    /\ ("arguments" \in DOMAIN Field("params").f => ParamsField("arguments").t = "obj")
BindsPrompt ==
    /\ server = "AsyncMCPServer"
    /\ VersionValid /\ MethodIs("prompts/get") /\ NamesRegistered("prompt_")
    /\ ParamsField("arguments").t = "obj" /\ DOMAIN ParamsField("arguments").f # {}
Target ==
    CHOOSE m \in Range(Members(server)) :
        /\ m.prefix = (IF MethodIs("tools/call") THEN "tool_" ELSE "prompt_")
        /\ m.name = ParamsField("name").s
Supplied == IF ParamsField("arguments").t = "obj" THEN DOMAIN ParamsField("arguments").f ELSE {}
HasNeither(p) == p.name \notin Supplied /\ ~p.hasDefault
FirstWithNeither ==
    LET ps == Target.params
        i == CHOOSE k \in DOMAIN ps : HasNeither(ps[k]) /\ \A j \in 1..(k - 1) : ~HasNeither(ps[j])
    IN  ps[i].name

C9_HandlerFailureContained ==
    (Dispatched /\ invoked # <<>> /\ outcome.kind = "raise") =>
        /\ IsErrorCode(INTERNAL_ERROR)
        /\ \A i \in DOMAIN outcome.exc.text : MessageNames(outcome.exc.text[i])
        /\ status = "running"

\* C10: a handler invoked by tools/call or by prompts/get that returns None
\* is answered with error -32603, never with a result.
C10_NoneIsExecutionError ==
    (Dispatched /\ invoked # <<>> /\ outcome = Returns(None)) =>
        IsErrorCode(INTERNAL_ERROR)

----------------------------------------------------------------------------
(* C11..C20: handler results, prompts, discovery and schemas *)

\* The handler that was invoked is a division and the divisor is 0: its own
\* logic signals a domain failure.
DividesByZero ==
    /\ invoked # <<>> /\ invoked[1].prefix = "tool_"
    /\ invoked[1].name \in {"divide", "divide_async"}
    /\ invoked[1].kwargs["b"] = JInt(0)

\* C11: when the handler's own logic signals a domain failure (divide with
\* divisor 0), the tools/call response is an error with code -32603 and not
\* a success result.
C11_DomainFailureIsError ==
    (Dispatched /\ VersionValid /\ MethodIs("tools/call") /\ DividesByZero) =>
        IsErrorCode(INTERNAL_ERROR)

\* The single content item of a tools/call result.
ContentItem == response.result.content[1]

\* The request is a call of `add` with a = 10 and b = 5.
CallsAddTenFive ==
    /\ invoked # <<>> /\ invoked[1].name = "add"
    /\ invoked[1].kwargs["a"] = JInt(10) /\ invoked[1].kwargs["b"] = JInt(5)

GetsRegisteredPrompt ==
    /\ server = "AsyncMCPServer" /\ VersionValid /\ MethodIs("prompts/get")
    /\ NamesRegistered("prompt_")

\* The caller supplied arguments: a dict with at least one entry.
ArgumentsSupplied ==
    /\ HasParamsDict /\ ParamsField("arguments").t = "obj"
    /\ DOMAIN ParamsField("arguments").f # {}

\* The result body carries the description of the prompt the request names.
HasDescription ==
    /\ IsResult /\ "description" \in DOMAIN response.result
    /\ response.result.description = prompt_description(Target)

\* C13 as stated: prompts/get for a registered prompt always returns a
\* result with `description`, with a `messages` array when arguments are
\* supplied and without `messages` (and without invoking the handler) when
\* none are.
C13_AlwaysDescription ==
    (Dispatched /\ GetsRegisteredPrompt) =>
        /\ HasDescription
        /\ IF ArgumentsSupplied
           THEN /\ "messages" \in DOMAIN response.result
                /\ response.result.messages.t = "list"
           ELSE /\ "messages" \notin DOMAIN response.result
                /\ invoked = <<>>

\* C13 (amended): without arguments the result carries `description` and
\* no `messages`, and the handler is not invoked; with arguments, when the
\* handler is invoked and returns, the result carries `description` and a
\* `messages` array; with arguments that do not bind, or a handler that
\* raises, there is no result.
C13_DescriptionAndMessages ==
    (Dispatched /\ GetsRegisteredPrompt) =>
        IF ~ArgumentsSupplied
        THEN /\ HasDescription
             /\ "messages" \notin DOMAIN response.result
             /\ invoked = <<>>
        ELSE IF invoked # <<>> /\ outcome.kind = "return"
        THEN /\ HasDescription
             /\ "messages" \in DOMAIN response.result
             /\ response.result.messages.t = "list"
        ELSE ~IsResult

\* Both halves in one run: a description-only answer was printed, and now a
\* rendered one.
C13_Witness ==
    /\ pc = "done" /\ GetsRegisteredPrompt /\ ParamsField("name") = JStr("brainstorm")
    /\ ArgumentsSupplied /\ invoked # <<>> /\ HasDescription
    /\ "messages" \in DOMAIN response.result
    /\ printed = 2

\* The rendered messages and the value the prompt handler returned.
Rendered == response.result.messages
Ret == outcome.value

\* Is v a single user-role text message whose text is `text`?
IsUserText(v, text) ==
    /\ v.t = "list" /\ Len(v.items) = 1
    /\ v.items[1].t = "obj" /\ DOMAIN v.items[1].f = {"role", "content"}
    /\ v.items[1].f["role"] = JStr("user")
    /\ v.items[1].f["content"].t = "obj"
    /\ DOMAIN v.items[1].f["content"].f = {"type", "text"}
    /\ v.items[1].f["content"].f["type"] = JStr("text")
    /\ v.items[1].f["content"].f["text"] = text

\* Every element of the list is a dict with `role` and `content`.
AllRoleContent(v) ==
    \A i \in DOMAIN v.items :
        v.items[i].t = "obj" /\ {"role", "content"} \subseteq DOMAIN v.items[i].f

\* C14: the messages of a rendered prompt follow from the handler's return
\* value: a text becomes one user message with that text; a list of
\* role/content elements is returned unchanged; a dict with a `messages`
\* list yields that list; anything else becomes one user message whose
\* text is the serialized value.
C14_MessageRules ==
    (Dispatched /\ GetsRegisteredPrompt /\ IsResult /\ invoked # <<>>) =>
        /\ outcome.kind = "return"
        /\ IF Ret.t = "str" THEN IsUserText(Rendered, Ret)
           ELSE IF Ret.t = "list" /\ AllRoleContent(Ret)
           THEN Rendered.t = "list" /\ Rendered.items = Ret.items
           ELSE IF Ret.t = "obj" /\ "messages" \in DOMAIN Ret.f /\ Ret.f["messages"].t = "list"
           THEN Rendered = Ret.f["messages"]
           ELSE /\ IsUserText(Rendered, dumps(Ret))
                /\ loads(dumps(Ret)) = Ret

\* A list of two role/content messages passes through, in order.
C14_Witness ==
    /\ pc = "done" /\ GetsRegisteredPrompt /\ IsResult /\ invoked # <<>>
    /\ Ret.t = "list" /\ Len(Ret.items) = 2 /\ AllRoleContent(Ret)
    /\ Rendered.items[1].f["role"] = JStr("system")
    /\ Rendered.items[2].f["role"] = JStr("user")

\* A prompts/get request served by the asynchronous server whose params are
\* absent or a dict.
GetsPrompt ==
    /\ server = "AsyncMCPServer" /\ VersionValid /\ MethodIs("prompts/get")
    /\ (~HasField("params") \/ HasParamsDict)

C16_SyncServesPrompts ==
    (Dispatched /\ server = "MCPServer" /\ VersionValid) =>
        /\ MethodIs("prompts/list") =>
               (IsResult /\ response.result = discover_prompts(server))
        /\ (MethodIs("prompts/get") /\ NamesRegistered("prompt_")) =>
               /\ IsResult /\ "description" \in DOMAIN response.result
               /\ ArgumentsSupplied \/ "messages" \notin DOMAIN response.result

\* A listing request the server routes: tools/list on both servers,
\* prompts/list on the asynchronous one.
ListsTools == VersionValid /\ MethodIs("tools/list")
ListsPrompts == server = "AsyncMCPServer" /\ VersionValid /\ MethodIs("prompts/list")
ListedPrefix == IF MethodIs("tools/list") THEN "tool_" ELSE "prompt_"
Descriptors == IF MethodIs("tools/list") THEN response.result.tools
               ELSE response.result.prompts

\* The methods of the instance that carry the prefix.
HandlersWith(prefix) == {m \in Range(Members(server)) : m.prefix = prefix}

SchemaKey == IF server = "MCPServer" THEN "parameters" ELSE "inputSchema"
HandlerOf(descriptor) ==
    CHOOSE m \in HandlersWith(ListedPrefix) : m.name = descriptor.name
\* The parameters a caller can pass: the declared ones, the receiver aside.
Declared(handler) == SelectSeq(handler.params, LAMBDA p : p.name # "self")
PropertyNames(schema) == [j \in DOMAIN schema.properties |-> schema.properties[j][1]]
RequiredOf(schema) == IF "required" \in DOMAIN schema THEN schema.required ELSE <<>>
NamesOf(params) == [j \in DOMAIN params |-> params[j].name]
WithoutDefault(params) == SelectSeq(params, LAMBDA p : ~p.hasDefault)

\* C18: the schema of a handler with parameters has type "object", its
\* properties are the declared parameters in declaration order, and its
\* required list (left out when empty) is the parameters without a default,
\* in declaration order; tool_echo(x: str) gives {x: string}, required [x].
C18_SchemaOfSignature ==
    (Dispatched /\ (ListsTools \/ ListsPrompts) /\ IsResult) =>
        \A i \in DOMAIN Descriptors :
            LET d == Descriptors[i]
                params == Declared(HandlerOf(d))
            IN  params # <<>> =>
                  /\ SchemaKey \in DOMAIN d
                  /\ d[SchemaKey].type = "object"
                  /\ PropertyNames(d[SchemaKey]) = NamesOf(params)
                  /\ RequiredOf(d[SchemaKey]) = NamesOf(WithoutDefault(params))
                  /\ (params = <<Required("x", Ty("str"))>> =>
                        d[SchemaKey] = [type |-> "object",
                                        properties |-> << <<"x", [type |-> "string"]>> >>,
                                        required |-> <<"x">>])

\* A listed tool whose first and third parameters have defaults and whose
\* second has none.
C18_Witness ==
    /\ pc = "done" /\ ListsTools /\ IsResult
    /\ \E i \in DOMAIN Descriptors :
          LET params == Declared(HandlerOf(Descriptors[i]))
          IN  /\ Len(params) = 3
              /\ params[1].hasDefault /\ ~params[2].hasDefault /\ params[3].hasDefault
              /\ RequiredOf(Descriptors[i][SchemaKey]) = <<"y">>

\* The annotations of the signature can all be resolved.
Resolvable(params) == \A j \in DOMAIN params : params[j].type # Unresolvable
IsOptional(a) ==
    /\ a # None /\ a.tag \in {"Union", "UnionType"} /\ Len(a.args) = 2
    /\ Ty("NoneType") \in Range(a.args)
SchemaTypes == {"null", "string", "integer", "number", "boolean", "array", "object"}

\* The node C19 names for an annotation that is not an optional.
RECURSIVE NodeFor(_)
NodeFor(a) ==
    IF a = None \/ a = Ty("NoneType") THEN [type |-> "null"]
    ELSE IF a = Ty("str") THEN [type |-> "string"]
    ELSE IF a = Ty("int") THEN [type |-> "integer"]
    ELSE IF a = Ty("float") THEN [type |-> "number"]
    ELSE IF a = Ty("bool") THEN [type |-> "boolean"]
    ELSE IF a.tag \in {"list", "List"}
    THEN IF a.args = <<>> THEN [type |-> "array"]
         ELSE [type |-> "array", items |-> NodeFor(a.args[1])]
    ELSE IF a.tag \in {"dict", "Dict"} THEN [type |-> "object"]
    ELSE [type |-> "string"]

\* C19: every annotation is translated to a schema node: str to string,
\* int to integer, float to number, bool to boolean, a list to array (with
\* the element type's node as `items` when it is known), a dict to object,
\* no annotation or NoneType to null, and any other type to string.
C19_TranslatorTotal ==
    (Dispatched /\ (ListsTools \/ ListsPrompts) /\ IsResult) =>
        \A i \in DOMAIN Descriptors :
            LET d == Descriptors[i]
                params == Declared(HandlerOf(d))
            IN  (params # <<>> /\ Resolvable(params)) =>
                  \A j \in DOMAIN params :
                      LET node == d[SchemaKey].properties[j][2]
                      IN  /\ node.type \in SchemaTypes
                          /\ ~IsOptional(params[j].type) => node = NodeFor(params[j].type)

\* A listed handler whose first parameter is a list of lists of int.
C19_Witness ==
    /\ pc = "done" /\ ListsPrompts /\ IsResult
    /\ \E i \in DOMAIN Descriptors :
          LET params == Declared(HandlerOf(Descriptors[i]))
          IN  /\ params # <<>> /\ Resolvable(params)
              /\ params[1].type = Generic("List", <<Generic("List", <<Ty("int")>>)>>)
              /\ Descriptors[i][SchemaKey].properties[1][2] =
                    [type |-> "array",
                     items |-> [type |-> "array", items |-> [type |-> "integer"]]]

\* C20: when an annotation of a handler cannot be resolved, the listing
\* still succeeds and each parameter of that handler is {type: "string"}.
C20_UnresolvedIsString ==
    (Dispatched /\ (ListsTools \/ ListsPrompts)) =>
        /\ IsResult
        /\ \A i \in DOMAIN Descriptors :
              LET d == Descriptors[i]
                  params == Declared(HandlerOf(d))
              IN  (params # <<>> /\ ~Resolvable(params)) =>
                    \A j \in DOMAIN params :
                        d[SchemaKey].properties[j][2] = [type |-> "string"]

\* The one alternative of an optional type that is not NoneType.
Alternative(a) == IF a.args[2] = Ty("NoneType") THEN a.args[1] ELSE a.args[2]

\* C21: a parameter annotated with an optional of T gets exactly the node
\* of T, whichever side NoneType is on and also when T is generic.
C21_OptionalUnwraps ==
    (Dispatched /\ (ListsTools \/ ListsPrompts) /\ IsResult) =>
        \A i \in DOMAIN Descriptors :
            LET d == Descriptors[i]
                params == Declared(HandlerOf(d))
            IN  (params # <<>> /\ Resolvable(params)) =>
                  \A j \in DOMAIN params :
                      IsOptional(params[j].type) =>
                          d[SchemaKey].properties[j][2] = NodeFor(Alternative(params[j].type))

C23_DescriptionIsFirstLine ==
    (Dispatched /\ (ListsTools \/ ListsPrompts) /\ IsResult) =>
        \A i \in DOMAIN Descriptors :
            LET d == Descriptors[i]
                h == HandlerOf(d)
            IN  d.description =
                    IF h.doc # <<>> THEN DocText(<<h.doc[1]>>)
                    ELSE IF ListsTools THEN Synthesized("Execute ", h.name, " tool")
                    ELSE Synthesized("Prompt template ", h.name, "")

\* The categories C24 names for each of the docstrings, written out by hand.
CategoriesOf(doc) ==
    CASE doc = <<>> -> <<>>
       [] doc = DocLabelLine -> <<<<"a","i">>, <<"m","l">>>>
       [] doc = DocUpperLabel -> <<<<"u","x">>>>
       [] doc = DocBrackets -> <<<<"a","i">>, <<"m","l">>>>
       [] doc = DocPlain -> <<>>
       [] doc = DocLabelInside -> <<>>
       [] doc = DocEmptyTokens -> <<<<"a","i">>, <<"m","l">>, <<"u","x">>>>
       [] doc = DocLabelWithBracket -> <<<<"a","i"," ","[","c","a","t","e","g","o","r","i","e","s",":"," ","u","x","]">>, <<"u","x">>>>
       [] doc = DocTwoBrackets -> <<<<"a","i">>>>
       [] doc = DocBareLabel -> <<>>
       [] doc = DocBlankBracket -> <<>>
       [] doc = DocSplitBracket -> <<<<"[","c","a","t","e","g","o","r","y",":"," ","x">>, <<"y","]">>>>

\* A tag is trimmed and lowercased, a list of tags holds none twice.
IsTag(c) == c # <<>> /\ strip(c) = c /\ lower_str(c) = c
NoDuplicates(seq) == \A i, j \in DOMAIN seq : seq[i] = seq[j] => i = j

\* C24: the categories of a prompt are the comma-separated tokens of its
\* label lines and bracketed annotations, trimmed, lowercased, without
\* duplicates and in first-seen order; the empty list when nothing matches.
C24_CategoriesOfDocstring ==
    (Dispatched /\ ListsPrompts) =>
        /\ IsResult
        /\ \A i \in DOMAIN Descriptors :
              LET cats == Descriptors[i].categories
                  doc == HandlerOf(Descriptors[i]).doc
              IN  /\ \A k \in DOMAIN cats : IsTag(cats[k])
                  /\ NoDuplicates(cats)
                  /\ doc \in Documents => cats = CategoriesOf(doc)

\* Two label lines with empty tokens and a repeated tag were merged.
C24_Witness ==
    /\ pc = "done" /\ ListsPrompts /\ IsResult
    /\ \E i \in DOMAIN Descriptors :
          /\ HandlerOf(Descriptors[i]).doc = DocEmptyTokens
          /\ Descriptors[i].categories = <<<<"a","i">>, <<"m","l">>, <<"u","x">>>>

\* The label line built from a list of tags: "Categories: t1,t2,...".
RECURSIVE JoinTags(_)
JoinTags(tags) ==
    IF tags = <<>> THEN <<>>
    ELSE IF Len(tags) = 1 THEN tags[1]
    ELSE tags[1] \o <<",">> \o JoinTags(Tail(tags))
LabelLine(tags) ==
    <<"C","a","t","e","g","o","r","i","e","s",":"," ">> \o JoinTags(tags)

\* C25: extracting the categories of the label line built from the
\* categories of a docstring returns those categories, in the same order.
C25_ExtractionIdempotent ==
    (Dispatched /\ ListsPrompts /\ IsResult) =>
        \A i \in DOMAIN Descriptors :
            LET cats == Descriptors[i].categories
            IN  _extract_prompt_categories(<<LabelLine(cats)>>) = cats

\* The handler an invocation called.
Invoked(k) == getattr(server, invoked[k].prefix, invoked[k].name)

Answered(i) == i \in Range(written)
IsRequestLine(i) == consumed[i] = "request"
Increasing(seq) == \A i, j \in DOMAIN seq : i < j => seq[i] < seq[j]

\* C27: a line is read only when the request read before it has been
\* processed and its response, if any, written; a response is written for
\* the line read last, so the responses come in the order of the requests.
C27_OneRequestAtATime ==
    [][ /\ nread' # nread =>
              /\ pc = "await"
              /\ \A i \in 1..nread : Answered(i) \/ ~IsRequestLine(i)
        /\ written' # written =>
              /\ written' = Append(written, nread)
              /\ Increasing(written')
              /\ printed' = printed + 1 ]_vars

\* Two requests answered in turn, the second by a handler run on a worker.
C27_Witness ==
    /\ pc = "done" /\ server = "AsyncMCPServer"
    /\ consumed = <<"request", "request">> /\ written = <<1, 2>>
    /\ Len(invoked) = 1 /\ invoked[1].on = "worker"

\* C28: whenever the loop is between two lines or has ended, the number of
\* output lines is the number of lines read that are neither blank nor a
\* notification.
C28_OneLinePerRequest ==
    pc \in {"await", "exited"} =>
        /\ printed = Len(written)
        /\ Len(written) = Cardinality({i \in 1..nread : IsRequestLine(i)})

\* C29: a version-valid initialize request gets a result with the request's
\* id that carries protocolVersion, serverInfo (the class name and a
\* version), capabilities and the instructions, without any handler call.
C29_InitializeSucceeds ==
    (Dispatched /\ VersionValid /\ MethodIs("initialize")) =>
        /\ IsResult
        /\ response.id = Field("id")
        /\ {"protocolVersion", "serverInfo", "capabilities", "instructions"}
              \subseteq DOMAIN response.result
        /\ response.result.serverInfo.name = server
        /\ "version" \in DOMAIN response.result.serverInfo
        /\ response.result.instructions = <<"get_instructions", server>>
        /\ invoked = <<>>

\* C30: the loop finishes on end of input only between two lines, when no
\* handler is running and every request read has its response; and every
\* handler call made has returned or raised by the time the loop moves on.
C30_CleanEndOfInput ==
    [][ /\ (status' = "finished" /\ status # "finished") =>
              /\ pc = "await" /\ invoked = <<>>
              /\ \A i \in 1..nread : IsRequestLine(i) => Answered(i)
              /\ written' = written
        /\ invoked' # <<>> => outcome'.kind \in {"return", "raise"} ]_vars

\* The input ended after two requests, both answered.
C30_Witness ==
    /\ status = "finished" /\ pc = "exited"
    /\ consumed = <<"request", "request">> /\ written = <<1, 2>>

----------------------------------------------------------------------------
(* Claims about the movie servers *)

\* Task i is a call of handler op that has returned.
HasReturned(i, op) == tasks[i].op = op /\ tasks[i].pc = "returned"
IsErrorDict(value) == "error" \in DOMAIN value
\* The normalised query of search task i: query.lower().strip().
QueryOf(i) == strip(lower_str(tasks[i].args.query.s))

\* C31: the three branches of search_movies_async complete in any order;
\* the call returns its one result only after all three have completed, and
\* local_matches, external_matches and recommendations hold the result of the
\* local search, of the external search and of the recommendations, whatever
\* the order of completion was.
C31_BranchResultsInOwnFields ==
    \A i \in DOMAIN tasks :
        HasReturned(i, "search_movies_async") /\ ~IsErrorDict(tasks[i].ret)
        => /\ Range(tasks[i].locals.order) = Range(search_tasks)
           /\ Len(tasks[i].locals.order) = 3
           /\ tasks[i].ret.local_matches = _search_local_movies(QueryOf(i))
           /\ tasks[i].ret.external_matches = _search_external_api(QueryOf(i))
           /\ tasks[i].ret.recommendations = _search_recommendations(QueryOf(i))
           /\ tasks[i].ret.total_results
                  = Len(tasks[i].ret.local_matches) + Len(tasks[i].ret.external_matches)

\* A search for "Matrix" has returned its match although the recommendations
\* completed first and the local search last.
C31_Witness ==
    \E i \in DOMAIN tasks :
        /\ HasReturned(i, "search_movies_async") /\ ~IsErrorDict(tasks[i].ret)
        /\ tasks[i].locals.order
               = <<"_search_recommendations", "_search_external_api", "_search_local_movies">>
        /\ Len(tasks[i].ret.local_matches) = 1
        /\ tasks[i].ret.local_matches[1].id = 2

\* The booking refers to a movie of the catalogue and to one of its show times.
RefersToCatalogue(booking) ==
    \E k \in DOMAIN movies_data :
        /\ IsInt(booking.movie_id) /\ movies_data[k].id = IntOf(booking.movie_id)
        /\ booking.show_time.t = "str"
        /\ \E j \in DOMAIN movies_data[k].showTimes :
               movies_data[k].showTimes[j] = booking.show_time.s

EntriesWellFormed ==
    \A id \in DOMAIN bookings :
        /\ bookings[id].booking_id = id
        /\ RefersToCatalogue(bookings[id])
        /\ IsInt(bookings[id].num_tickets) /\ IntOf(bookings[id].num_tickets) > 0
        /\ bookings[id].status = "confirmed"

\* In this step a call of book_ticket_async returns an error.
ReturnsError(i) ==
    /\ i \notin DOMAIN tasks \/ tasks[i].pc # "returned"
    /\ tasks'[i].op = "book_ticket_async" /\ tasks'[i].pc = "returned"
    /\ IsErrorDict(tasks'[i].ret)

\* C38: every entry of bookings is stored under its own booking_id, refers
\* to a movie of the catalogue and to one of that movie's show times, has
\* num_tickets > 0 and status "confirmed", in every reachable state; and a
\* step in which a call of book_ticket_async returns an error leaves bookings
\* as it was.
C38_BookingsWellFormed ==
    [][/\ EntriesWellFormed'
       /\ (\E i \in DOMAIN tasks' : ReturnsError(i)) => bookings' = bookings]_vars

\* A booking made with movie_id true is stored, and another call has
\* returned an error.
C38_Witness ==
    /\ Cardinality(DOMAIN bookings) = 1
    /\ \E id \in DOMAIN bookings : bookings[id].movie_id = JBool(TRUE)
    /\ \E i \in DOMAIN tasks :
           HasReturned(i, "book_ticket_async") /\ IsErrorDict(tasks[i].ret)

\* The details a booking is known by.
SameBooking(a, b) ==
    /\ a.movie_id = b.movie_id /\ a.show_time = b.show_time
    /\ a.num_tickets = b.num_tickets /\ a.customer_email = b.customer_email

\* C39: once book_ticket_async has returned a confirmed booking with id B,
\* get_booking_async(B) returns that booking's own movie, show time, number
\* of tickets and customer, also when other calls of book_ticket_async run
\* concurrently on the instance: no confirmed booking is overwritten.
C39_ConfirmedStaysRetrievable ==
    \A i \in DOMAIN tasks :
        HasReturned(i, "book_ticket_async") /\ ~IsErrorDict(tasks[i].ret)
        => LET found == get_booking(bookings, JStr(tasks[i].ret.booking_id), clock)
           IN  /\ ~IsErrorDict(found)
               /\ SameBooking(found, tasks[i].ret)

----------------------------------------------------------------------------
(* Claims about file mode *)

\* C32: in file mode an input file that cannot be read is fatal: no request
\* is dispatched, no response is written, and the process exits with a
\* status that is not zero.
C32_UnreadableFileIsFatal ==
    ~file.readable
    => /\ consumed = <<>> /\ line = NoLine /\ invoked = <<>>
       /\ response = None /\ printed = 0 /\ written = <<>>
       /\ pc \in {"open", "exited"}
       /\ pc = "exited" => ExitStatus # 0

\* The process has ended on a file that does not exist.
C32_Witness ==
    /\ file = Unreadable("FileNotFoundError")
    /\ pc = "exited" /\ status = "failed"

----------------------------------------------------------------------------
(* Claims about what a request may change and in which order it is checked *)

\* The request is one the claim says calls no handler: initialize, a
\* listing, a prompts/get without arguments, a request answered with one of
\* the codes of a rejection, or a call that leaves a required parameter out.
\* (The response is the one the step has produced.)
RejectionCodes == {PARSE_ERROR, INVALID_REQUEST, METHOD_NOT_FOUND, INVALID_PARAMS}
CallsNothing ==
    \/ /\ VersionValid
       /\ MethodIs("initialize") \/ MethodIs("tools/list") \/ MethodIs("prompts/list")
    \/ VersionValid /\ MethodIs("prompts/get") /\ ~ArgumentsSupplied
    \/ \E code \in RejectionCodes : IsErrorCode(code)
    \/ (BindsTool \/ BindsPrompt) /\ \E p \in Range(Target.params) : HasNeither(p)

\* What the instance holds: its class, its methods, its booking table.
InstanceState == <<server, declared, bookings>>

\* The listing of the instance as it was made.
FreshListing ==
    IF MethodIs("tools/list")
    THEN (IF server = "MCPServer" THEN discover_tools_sync(server) ELSE discover_tools(server))
    ELSE discover_prompts(server)

CallsByName == MethodIs("tools/call") \/ MethodIs("prompts/get")
CalledPrefix == IF MethodIs("tools/call") THEN "tool_" ELSE "prompt_"
NameGiven == HasParamsDict /\ Truthy(ParamsField("name"))
\* A declared parameter is left without a value; prompts/get binds only
\* when arguments are supplied.
BindingFails ==
    /\ MethodIs("tools/call") \/ ArgumentsSupplied
    /\ \/ ParamsField("arguments").t # "obj" /\ "arguments" \in DOMAIN Field("params").f
          /\ Target.params # <<>>
       \/ \E p \in Range(Target.params) : HasNeither(p)
ExecutionFails ==
    /\ invoked # <<>>
    /\ outcome.kind = "raise" \/ (outcome.kind = "return" /\ outcome.value = None)

\* C34: the checks are made in a fixed order and the first one that fails
\* decides the response: parse error -32700, then version -32600, then
\* method routing -32601, then missing name -32602, then unknown tool or
\* prompt -32601, then argument binding -32603, then execution -32603.
C34_FirstFailingCheckDecides ==
    Dispatched =>
        IF line.kind = "malformed" THEN IsErrorCode(PARSE_ERROR)
        ELSE IF ~VersionValid THEN IsErrorCode(INVALID_REQUEST)
        ELSE IF Field("method") \notin KnownMethods THEN IsErrorCode(METHOD_NOT_FOUND)
        ELSE IF ~CallsByName THEN ~IsError
        ELSE IF ~NameGiven THEN IsErrorCode(INVALID_PARAMS)
        ELSE IF ~NamesRegistered(CalledPrefix) THEN IsErrorCode(METHOD_NOT_FOUND)
        ELSE IF BindingFails THEN IsErrorCode(INTERNAL_ERROR) /\ invoked = <<>>
        ELSE IF ExecutionFails THEN IsErrorCode(INTERNAL_ERROR)
        ELSE IsResult

\* The names the instance lists for the prefix.
ListedNames(prefix) ==
    LET listing == IF prefix = "prompt_" THEN discover_prompts(server).prompts
                   ELSE IF server = "MCPServer" THEN discover_tools_sync(server).tools
                   ELSE discover_tools(server).tools
    IN  {listing[i].name : i \in DOMAIN listing}

\* C35: a tools/call by a name that tools/list carries is never answered
\* with -32601 or -32602, and a tools/call by a (non-empty) name that no
\* descriptor carries is answered with the not-found error -32601; likewise
\* prompts/get against prompts/list on the server that serves prompts.
C35_ListingAgreesWithDispatch ==
    (/\ Dispatched /\ VersionValid /\ CallsByName
     /\ MethodIs("prompts/get") => server = "AsyncMCPServer"
     /\ HasParamsDict /\ ParamsField("name").t = "str") =>
        IF ParamsField("name").s \in ListedNames(CalledPrefix)
        THEN ~IsErrorCode(METHOD_NOT_FOUND) /\ ~IsErrorCode(INVALID_PARAMS)
        ELSE ParamsField("name").s # "" => IsErrorCode(METHOD_NOT_FOUND)

----------------------------------------------------------------------------
(* Claims about arguments the handler does not declare *)

\* The request calls a handler of the running instance with a dict of
\* arguments.
CallsWithArguments ==
    /\ Dispatched /\ VersionValid /\ CallsByName
    /\ MethodIs("prompts/get") => server = "AsyncMCPServer"
    /\ NameGiven /\ NamesRegistered(CalledPrefix)
    /\ ParamsField("arguments").t = "obj"

\* Keys no handler of the example servers declares.
UndeclaredKeys == {"extra", "other"}

\* The line with `arguments` replaced.
WithArguments(f) == [line EXCEPT !.value.f["params"].f["arguments"] = JObj(f)]

\* The arguments of the line that the called handler declares.
DeclaredPart ==
    [k \in Supplied \cap ParamNames(Target.params) |-> ParamsField("arguments").f[k]]

\* The requests that differ from the line only in keys of `arguments` the
\* called handler does not declare.
Variants ==
    {DeclaredPart @@ [k \in K |-> JInt(10)] : K \in SUBSET UndeclaredKeys}

\* Dispatching the line with these arguments leads to the invocation and the
\* response the line led to.
SameAs(f) ==
    LET other == dispatch(server, WithArguments(f), outcome)
    IN  other.ret = response /\ other.raised = raised /\ other.calls = invoked

\* A handler without parameters was invoked with no arguments.
ParameterlessGetsNothing ==
    (/\ Dispatched /\ VersionValid /\ CallsByName /\ NameGiven
     /\ NamesRegistered(CalledPrefix) /\ invoked # <<>> /\ Target.params = <<>>) =>
        invoked[1].kwargs = NoKwargs

\* C36 as stated: two tools/call requests, or two prompts/get requests, to
\* the same handler that differ only in undeclared keys of `arguments` lead to
\* the same handler invocation and the same response, and a handler without
\* parameters is invoked with no arguments whatever `arguments` contains.
C36_UndeclaredArgumentsHaveNoEffect ==
    /\ CallsWithArguments => \A f \in Variants : SameAs(f)
    /\ ParameterlessGetsNothing

\* C36, amended: the same, for two tools/call requests and for two
\* prompts/get requests that both supply at least one argument or both supply
\* none (a prompts/get with an empty `arguments` describes the prompt and
\* invokes nothing, one with any key renders it); a handler without
\* parameters that is invoked is invoked with no arguments.
C36_UndeclaredArgumentsKeepTheMode ==
    /\ CallsWithArguments =>
          \A f \in Variants :
              (MethodIs("prompts/get") => ((DOMAIN f = {}) <=> (Supplied = {}))) => SameAs(f)
    /\ ParameterlessGetsNothing

\* A tool was invoked on arguments with an undeclared key next to its own,
\* and a prompt was.
C36_Witness ==
    /\ pc = "done" /\ CallsWithArguments /\ MethodIs("prompts/get")
    /\ "extra" \in Supplied /\ Supplied \cap ParamNames(Target.params) # {}
    /\ invoked # <<>> /\ "extra" \notin DOMAIN invoked[1].kwargs
    /\ IsResult

----------------------------------------------------------------------------
(* Claims about the synchronous movie server *)

\* A tools/call of book_ticket has been dispatched; Argument reads what it
\* carries for a parameter (None when it carries nothing).
BookTicketCalled ==
    /\ Dispatched /\ VersionValid /\ MethodIs("tools/call")
    /\ HasParamsDict /\ ParamsField("name") = JStr("book_ticket")
    /\ NamesRegistered("tool_")
Argument(key) ==
    IF ParamsField("arguments").t = "obj" THEN Get(ParamsField("arguments"), key, None)
    ELSE None

\* A JSON integer above zero; a string with a character that is no blank.
PositiveInteger(v) == v.t = "int" /\ v.n > 0
NonBlankString(v) == v.t = "str" /\ \E i \in DOMAIN Chars(v.s) : Chars(v.s)[i] # " "
ValidBooking ==
    /\ PositiveInteger(Argument("movie_id"))
    /\ NonBlankString(Argument("show_time"))
    /\ PositiveInteger(Argument("num_tickets"))

\* The response is a booking confirmation echoing the three arguments.
IsConfirmation ==
    /\ IsResult /\ invoked # <<>> /\ outcome.kind = "return" /\ outcome.value.t = "obj"
    /\ response.result = tool_result(outcome.value)
    /\ {"bookingId", "movieId", "showTime", "numTickets", "totalPrice"}
          \subseteq DOMAIN outcome.value.f

\* C37: on the synchronous movie server a tools/call of book_ticket whose
\* movie_id or num_tickets is not a positive integer, or whose show_time is
\* not a non-blank string, is answered with error -32603 and never with a
\* booking confirmation; a call with valid values returns a confirmation
\* echoing movie_id, show_time and num_tickets.
C37_BookTicketValidates ==
    BookTicketCalled =>
        IF ValidBooking
        THEN /\ IsConfirmation
             /\ outcome.value.f["movieId"] = Argument("movie_id")
             /\ outcome.value.f["showTime"] = Argument("show_time")
             /\ outcome.value.f["numTickets"] = Argument("num_tickets")
        ELSE IsErrorCode(INTERNAL_ERROR) /\ ~IsConfirmation

====
